---------------------------- MODULE Spec2Model ----------------------------
(***************************************************************************)
(* Model of guitarfx_rust: the partitioned FFT convolution engine          *)
(* (src/src/dsp/convolution.rs), the cabinet simulator that wraps it       *)
(* (src/src/dsp/cabinet.rs), the filters, the clipper and the tube stage   *)
(* (filters.rs, distortion.rs, amp_sim.rs), the processor                  *)
(* (src/src/dsp/mod.rs), the plugin callbacks (src/src/lib.rs) and the     *)
(* impulse-response loader (src/src/dsp/ir_loader.rs).                     *)
(*                                                                         *)
(* Numbers.  An f32 sample, IR tap or mix value v is held as the integer   *)
(* v * One (fixed point, One = 1.0), and a product a*b is (a*b) \div One.  *)
(* All inputs are chosen so that every such division is exact; rounding,   *)
(* infinities and NaN of f32 are outside the model.                        *)
(*                                                                         *)
(* Transforms.  realfft's real-to-complex transform of length N yields the *)
(* N/2+1 bins X[k] = SUM_n x[n] * w^(-n*k), w = exp(2*pi*i/N), and its     *)
(* complex-to-real inverse yields SUM_k X[k] * w^(n*k) over the Hermitian  *)
(* extension of the bins, WITHOUT the 1/N normalisation.  For N in         *)
(* {2,4,8} every w^j is a power of z = exp(2*pi*i/8), so a bin is an exact *)
(* element a + b*z + c*z^2 + d*z^3 of Z[z] (z^4 = -1), held as the tuple   *)
(* <<a,b,c,d>>.  The transforms below are computed in that ring, which is  *)
(* why the block sizes of the model are 1, 2 and 4.                        *)
(***************************************************************************)
EXTENDS Integers, Naturals, Sequences, FiniteSets, TLC

VARIABLES
    convolution_engine,  \* CabinetSimulator.convolution_engine / a PartitionedConvolution
    current_cabinet,     \* CabinetSimulator.current_cabinet
    mix,                 \* CabinetSimulator.mix (fixed point)
    new_block_size,      \* observation: the block size given to new
    last_op,             \* observation: the operation that produced this state
    last_arg,            \* observation: the cabinet the last load_cabinet / update_cabinet asked for, else "none"
    last_mix_arg,        \* observation: the mix the last set_mix / update_cabinet was given, else 1.0
    last_len,            \* observation (SpecConv): the length of the impulse response the last load_impulse_response was given
    last_result,         \* observation: "Ok", or the ConvolutionError the last operation returned
    last_input,          \* observation: the sample given, if the last operation was process_sample, else 0
    last_output,         \* observation: the value returned, if the last operation was process_sample, else 0
    last_wet,            \* observation: the value the engine returned to the last process_sample, else 0
    prev_cabinet,        \* observation: current_cabinet before the last operation
    dirty_before,        \* observation: the last operation loaded or reset an engine in mid-stream (Dirty)
    silent,              \* observation: every sample fed to the engine since its last load or reset was 0
    in_hist,             \* observation (SpecConv): samples fed to the engine since its last load or reset
    out_hist,            \* observation (SpecConv): values the engine returned since its last load or reset
    block_runs,          \* observation (SpecConv): positions in in_hist of the calls that ran the transforms
    loaded_ir,           \* observation (SpecConv): the impulse response of the last successful load
    stream_start,        \* observation (SpecConv): what began the stream of in_hist: "new", "load", "reset", or "reset_dirty" (a reset in mid-stream)
    load_calls,          \* observation: the number of load_cabinet calls the last operation made
    processor,           \* a GuitarFxProcessor: its pipeline stages (SpecProc)
    proc_call,           \* observation (SpecProc): the last process_sample call of the processor
    filter,              \* a BiquadFilter: its coefficients and registers (SpecFilter)
    tone_stack,          \* a ToneStack: its three filters and its sample rate (SpecFilter)
    filter_samples,      \* observation (SpecFilter): the number of process calls made so far
    filter_fresh,        \* observation (SpecFilter): filter is as BiquadFilter::new made it, but for process calls
    filter_run,          \* observation (SpecFilter): what the run works on: "none" yet, "filter" or "tone_stack"
    clipper_call,        \* observation (SpecClip): the last process call of the AsymmetricClipper
    plugin_processor,    \* GuitarFx.processor (SpecPlugin)
    twin_processor,      \* GuitarFx.processor of a second run of the plugin, given the same calls (SpecPlugin)
    param_cabinet_index, \* GuitarFxParams.cabinet_type: the index the host has set (SpecPlugin)
    host_latency,        \* the latency last reported to the host with set_latency_samples, 0 before (SpecPlugin)
    plugin_initialized,  \* the host has called initialize (SpecPlugin)
    plugin_frames,       \* observation (SpecPlugin): the number of sample frames processed so far
    plugin_call,         \* observation (SpecPlugin): the buffers of the last process call of both runs
    ir_directory,        \* the four impulse-response files of the directory given to IrLoader (SpecLoader)
    loader_irs,          \* observation (SpecLoader): what the last load_cabinet_irs returned
    loader_writes        \* observation (SpecLoader): the number of files written so far

vars == <<convolution_engine, current_cabinet, mix, new_block_size, last_op,
          last_arg, last_mix_arg, last_len, last_result, last_input, last_output, last_wet,
          prev_cabinet, dirty_before, silent, in_hist, out_hist, block_runs,
          loaded_ir, stream_start, load_calls, processor, proc_call,
          filter, tone_stack, filter_samples, filter_fresh, filter_run, clipper_call,
          plugin_processor, twin_processor, param_cabinet_index, host_latency,
          plugin_initialized, plugin_frames, plugin_call,
          ir_directory, loader_irs, loader_writes>>

---------------------------------------------------------------------------
\* Fixed point, program constants and bounds

\* A sequence given as a function, evaluated once into a tuple (the same
\* value; TLC otherwise re-evaluates an element at every use)
Fix(s) == s \o <<>>

\* f32 1.0
One == 100

\* convolution.rs:80, the longest impulse response accepted
MaxIrLen == 96000

\* block sizes the engine is built with
BlockSizes == {1, 2, 4}

\* samples fed to process_sample: 0.0 and 1.0
Samples == {0, One}

\* mix values given to set_mix and update_cabinet: -0.5, 0.5 and 1.5
MixInputs == {-(One \div 2), One \div 2, One + One \div 2}

\* most samples the engine-level driver feeds between two loads/resets
MaxSamples == 6

\* longest impulse response the engine-level driver loads (besides the
\* long ones)
MaxIrTaps == 4

\* most partitions of an engine the engine-level driver runs process_sample on
MaxPartitions == MaxIrTaps + 1

\* lengths of the long impulse responses the engine-level driver loads: the
\* limit, the limit + 1 and the 100,000 of test_impulse_validation
LongLens == {MaxIrLen, MaxIrLen + 1, 100000}

\* tap i of the driver's impulse responses: 1.0, 1.0, 1.5, 2.0, 2.5, ...
TestTap(i) == IF i = 1 THEN One ELSE (i * One) \div 2

\* the driver's impulse responses: the first n taps (n = 0: the empty one)
TestIr(n) == Fix([i \in 1..n |-> TestTap(i)])

Min(a, b) == IF a < b THEN a ELSE b

\* f32::abs
Abs(v) == IF v < 0 THEN -v ELSE v

\* The element of a set of one element.  The statements of a method that
\* run one after another are written The({e : x \in {v}}): v is computed
\* once, x names its value in e; a chain of them reads from its last line
\* up.
The(S) == CHOOSE y \in S : TRUE

Zeros(n) == Fix([i \in 1..n |-> 0])

AllZero(s) == \A i \in 1..Len(s) : s[i] = 0

---------------------------------------------------------------------------
\* Complex numbers of the transforms: elements of Z[z], z = exp(2*pi*i/8)

\* num_complex::Complex::new(0.0, 0.0)
CZero == <<0, 0, 0, 0>>

\* z^j for j in 0..7
Zeta(j) ==
    CASE j = 0 -> <<1, 0, 0, 0>>
      [] j = 1 -> <<0, 1, 0, 0>>
      [] j = 2 -> <<0, 0, 1, 0>>
      [] j = 3 -> <<0, 0, 0, 1>>
      [] j = 4 -> <<-1, 0, 0, 0>>
      [] j = 5 -> <<0, -1, 0, 0>>
      [] j = 6 -> <<0, 0, -1, 0>>
      [] j = 7 -> <<0, 0, 0, -1>>

\* Complex addition (the += of process_block)
CAdd(a, b) == <<a[1] + b[1], a[2] + b[2], a[3] + b[3], a[4] + b[4]>>

\* real scalar times complex
CScale(r, a) == <<r * a[1], r * a[2], r * a[3], r * a[4]>>

\* Complex conjugate: conj(z) = z^7 = -z^3
CConj(a) == <<a[1], -a[4], -a[3], -a[2]>>

\* Exact product in Z[z] (product of polynomials modulo z^4 = -1)
CMulRaw(a, b) ==
    << a[1] * b[1] - a[2] * b[4] - a[3] * b[3] - a[4] * b[2],
       a[1] * b[2] + a[2] * b[1] - a[3] * b[4] - a[4] * b[3],
       a[1] * b[3] + a[2] * b[2] + a[3] * b[1] - a[4] * b[4],
       a[1] * b[4] + a[2] * b[3] + a[3] * b[2] + a[4] * b[1] >>

\* Fixed-point complex product input_bin * ir_bin
CMul(a, b) ==
    LET p == CMulRaw(a, b)
    IN  <<p[1] \div One, p[2] \div One, p[3] \div One, p[4] \div One>>

RECURSIVE CSum(_, _, _)
\* SUM of f[i] for i in lo..hi
CSum(f, lo, hi) == IF lo > hi THEN CZero ELSE CAdd(f[lo], CSum(f, lo + 1, hi))

\* realfft forward transform (fft.process) of the real sequence x of
\* length n: the bins 0..n/2
FftForward(x, n) ==
    LET step == 8 \div n
    IN  Fix([k1 \in 1..(n \div 2 + 1) |->
            CSum(Fix([m1 \in 1..n |->
                     CScale(x[m1], Zeta((8 - (((m1 - 1) * (k1 - 1) * step) % 8)) % 8))]),
                 1, n)])

\* realfft inverse transform (ifft.process) of the bins 0..n/2 to n real
\* samples, not normalised: the inverse of a forward transform is n times
\* the original
FftInverse(spec, n) ==
    LET step == 8 \div n
        full(k) == IF k <= n \div 2 THEN spec[k + 1] ELSE CConj(spec[n - k + 1])
    IN  Fix([m1 \in 1..n |->
            CSum(Fix([k1 \in 1..n |->
                     CMulRaw(full(k1 - 1), Zeta(((m1 - 1) * (k1 - 1) * step) % 8))]),
                 1, n)[1]])

---------------------------------------------------------------------------
\* CabinetSimulator: the built-in impulse responses
\* (the tables come first because the engine below looks their partitions up)

\* static MARSHALL_4X12_V30_IR: [f32; 256], each tap times One
MARSHALL_4X12_V30_IR ==
    <<
       100, 85, 72, 61, 52, 44, 37, 32, 27, 23, 20, 17, 15, 13, 11, 9,
       8, 7, 6, 5, 4, 4, 3, 3, 2, 2, 2, 1, 1, 1, 1, 1,
       1, 0, 0, 0, 0, 0, 0, 0, 0, 0, 0, 0, 0, 0, 0, 0,
       0, 0, 0, 0, 0, 0, 0, 0, 0, 0, 0, 0, 0, 0, 0, 0,
       0, 0, 0, 0, 0, 0, 0, 0, 0, 0, 0, 0, 0, 0, 0, 0,
       0, 0, 0, 0, 0, 0, 0, 0, 0, 0, 0, 0, 0, 0, 0, 0,
       0, 0, 0, 0, 0, 0, 0, 0, 0, 0, 0, 0, 0, 0, 0, 0,
       0, 0, 0, 0, 0, 0, 0, 0, 0, 0, 0, 0, 0, 0, 0, 0,
       0, 0, 0, 0, 0, 0, 0, 0, 0, 0, 0, 0, 0, 0, 0, 0,
       0, 0, 0, 0, 0, 0, 0, 0, 0, 0, 0, 0, 0, 0, 0, 0,
       0, 0, 0, 0, 0, 0, 0, 0, 0, 0, 0, 0, 0, 0, 0, 0,
       0, 0, 0, 0, 0, 0, 0, 0, 0, 0, 0, 0, 0, 0, 0, 0,
       0, 0, 0, 0, 0, 0, 0, 0, 0, 0, 0, 0, 0, 0, 0, 0,
       0, 0, 0, 0, 0, 0, 0, 0, 0, 0, 0, 0, 0, 0, 0, 0,
       0, 0, 0, 0, 0, 0, 0, 0, 0, 0, 0, 0, 0, 0, 0, 0,
       0, 0, 0, 0, 0, 0, 0, 0, 0, 0, 0, 0, 0, 0, 0, 0
    >>

\* static FENDER_TWIN_2X12_IR: [f32; 256], each tap times One
FENDER_TWIN_2X12_IR ==
    <<
       90, 78, 68, 59, 51, 44, 38, 33, 29, 25, 22, 19, 17, 15, 13, 11,
       10, 8, 7, 6, 5, 5, 4, 4, 3, 3, 2, 2, 2, 1, 1, 1,
       1, 1, 0, 0, 0, 0, 0, 0, 0, 0, 0, 0, 0, 0, 0, 0,
       0, 0, 0, 0, 0, 0, 0, 0, 0, 0, 0, 0, 0, 0, 0, 0,
       0, 0, 0, 0, 0, 0, 0, 0, 0, 0, 0, 0, 0, 0, 0, 0,
       0, 0, 0, 0, 0, 0, 0, 0, 0, 0, 0, 0, 0, 0, 0, 0,
       0, 0, 0, 0, 0, 0, 0, 0, 0, 0, 0, 0, 0, 0, 0, 0,
       0, 0, 0, 0, 0, 0, 0, 0, 0, 0, 0, 0, 0, 0, 0, 0,
       0, 0, 0, 0, 0, 0, 0, 0, 0, 0, 0, 0, 0, 0, 0, 0,
       0, 0, 0, 0, 0, 0, 0, 0, 0, 0, 0, 0, 0, 0, 0, 0,
       0, 0, 0, 0, 0, 0, 0, 0, 0, 0, 0, 0, 0, 0, 0, 0,
       0, 0, 0, 0, 0, 0, 0, 0, 0, 0, 0, 0, 0, 0, 0, 0,
       0, 0, 0, 0, 0, 0, 0, 0, 0, 0, 0, 0, 0, 0, 0, 0,
       0, 0, 0, 0, 0, 0, 0, 0, 0, 0, 0, 0, 0, 0, 0, 0,
       0, 0, 0, 0, 0, 0, 0, 0, 0, 0, 0, 0, 0, 0, 0, 0,
       0, 0, 0, 0, 0, 0, 0, 0, 0, 0, 0, 0, 0, 0, 0, 0
    >>

\* static VOX_AC30_BLUE_IR: [f32; 256], each tap times One
VOX_AC30_BLUE_IR ==
    <<
       85, 76, 68, 61, 55, 49, 44, 40, 36, 32, 29, 26, 24, 21, 19, 17,
       16, 14, 13, 11, 10, 9, 8, 7, 6, 6, 5, 4, 4, 3, 3, 3,
       2, 2, 2, 1, 1, 1, 1, 1, 0, 0, 0, 0, 0, 0, 0, 0,
       0, 0, 0, 0, 0, 0, 0, 0, 0, 0, 0, 0, 0, 0, 0, 0,
       0, 0, 0, 0, 0, 0, 0, 0, 0, 0, 0, 0, 0, 0, 0, 0,
       0, 0, 0, 0, 0, 0, 0, 0, 0, 0, 0, 0, 0, 0, 0, 0,
       0, 0, 0, 0, 0, 0, 0, 0, 0, 0, 0, 0, 0, 0, 0, 0,
       0, 0, 0, 0, 0, 0, 0, 0, 0, 0, 0, 0, 0, 0, 0, 0,
       0, 0, 0, 0, 0, 0, 0, 0, 0, 0, 0, 0, 0, 0, 0, 0,
       0, 0, 0, 0, 0, 0, 0, 0, 0, 0, 0, 0, 0, 0, 0, 0,
       0, 0, 0, 0, 0, 0, 0, 0, 0, 0, 0, 0, 0, 0, 0, 0,
       0, 0, 0, 0, 0, 0, 0, 0, 0, 0, 0, 0, 0, 0, 0, 0,
       0, 0, 0, 0, 0, 0, 0, 0, 0, 0, 0, 0, 0, 0, 0, 0,
       0, 0, 0, 0, 0, 0, 0, 0, 0, 0, 0, 0, 0, 0, 0, 0,
       0, 0, 0, 0, 0, 0, 0, 0, 0, 0, 0, 0, 0, 0, 0, 0,
       0, 0, 0, 0, 0, 0, 0, 0, 0, 0, 0, 0, 0, 0, 0, 0
    >>

\* static MESA_4X12_RECTO_IR: [f32; 256], each tap times One
MESA_4X12_RECTO_IR ==
    <<
       80, 71, 63, 56, 50, 44, 39, 35, 31, 28, 25, 22, 20, 18, 16, 14,
       13, 11, 10, 9, 8, 7, 6, 5, 5, 4, 4, 3, 3, 2, 2, 2,
       2, 1, 1, 1, 1, 1, 0, 0, 0, 0, 0, 0, 0, 0, 0, 0,
       0, 0, 0, 0, 0, 0, 0, 0, 0, 0, 0, 0, 0, 0, 0, 0,
       0, 0, 0, 0, 0, 0, 0, 0, 0, 0, 0, 0, 0, 0, 0, 0,
       0, 0, 0, 0, 0, 0, 0, 0, 0, 0, 0, 0, 0, 0, 0, 0,
       0, 0, 0, 0, 0, 0, 0, 0, 0, 0, 0, 0, 0, 0, 0, 0,
       0, 0, 0, 0, 0, 0, 0, 0, 0, 0, 0, 0, 0, 0, 0, 0,
       0, 0, 0, 0, 0, 0, 0, 0, 0, 0, 0, 0, 0, 0, 0, 0,
       0, 0, 0, 0, 0, 0, 0, 0, 0, 0, 0, 0, 0, 0, 0, 0,
       0, 0, 0, 0, 0, 0, 0, 0, 0, 0, 0, 0, 0, 0, 0, 0,
       0, 0, 0, 0, 0, 0, 0, 0, 0, 0, 0, 0, 0, 0, 0, 0,
       0, 0, 0, 0, 0, 0, 0, 0, 0, 0, 0, 0, 0, 0, 0, 0,
       0, 0, 0, 0, 0, 0, 0, 0, 0, 0, 0, 0, 0, 0, 0, 0,
       0, 0, 0, 0, 0, 0, 0, 0, 0, 0, 0, 0, 0, 0, 0, 0,
       0, 0, 0, 0, 0, 0, 0, 0, 0, 0, 0, 0, 0, 0, 0, 0
    >>

\* enum CabinetType
CabinetTypes ==
    {"Marshall4x12V30", "FenderTwin2x12", "VoxAC30Blue", "Mesa4x12Recto", "Direct"}

\* CabinetSimulator::load_cabinet_impulses: the HashMap cabinet_impulses
\* after construction (no entry for Direct)
cabinet_impulses ==
    [ Marshall4x12V30 |-> MARSHALL_4X12_V30_IR,
      FenderTwin2x12  |-> FENDER_TWIN_2X12_IR,
      VoxAC30Blue     |-> VOX_AC30_BLUE_IR,
      Mesa4x12Recto   |-> MESA_4X12_RECTO_IR ]

---------------------------------------------------------------------------
\* PartitionedConvolution

\* usize::is_power_of_two, for the sizes of the model
IsPowerOfTwo(n) == n \in {1, 2, 4, 8, 16, 32, 64, 128, 256, 512, 1024}

\* PartitionedConvolution::new.  fft_scratch is working memory: every use in
\* process_block fills it before reading it, so between calls only its
\* length is kept (fft_scratch_len); freq_buffer is never used by the code.
\* The assert on block_size is the guard of the constructing actions.
ConvNew(bs) ==
    [ block_size      |-> bs,
      fft_size        |-> bs * 2,
      ir_partitions   |-> <<>>,
      input_buffer    |-> <<>>,
      overlap_buffer  |-> Zeros(bs),
      fft_scratch_len |-> bs * 2,
      buffer_position |-> 0 ]


\* impulse_response.chunks(block_size): the number of chunks
NumChunks(ir, bs) == (Len(ir) + bs - 1) \div bs

\* impulse_response.chunks(block_size): chunk p (the last one may be short)
Chunk(ir, bs, p) == SubSeq(ir, (p - 1) * bs + 1, Min(p * bs, Len(ir)))

\* padded_chunk: vec![0.0; fft_size] with the chunk copied to its front
PadTo(chunk, n) == Fix([i \in 1..n |-> IF i <= Len(chunk) THEN chunk[i] ELSE 0])

\* One stored partition: the spectrum of a zero-padded chunk.  The code
\* stores bin i as the two floats [2i], [2i+1] and process_block reads them
\* back as Complex::new([2i], [2i+1]); the partition here is the bins.
Partition(ir, bs, p) == FftForward(PadTo(Chunk(ir, bs, p), bs * 2), bs * 2)

\* The chunk loop of load_impulse_response run to its end: all partitions
PartitionsOf(ir, bs) == Fix([p \in 1..NumChunks(ir, bs) |-> Partition(ir, bs, p)])

\* PartitionsOf of the built-in impulse responses for the block sizes 1, 2
\* and 4 (entry bs of each tuple; there is no block size 3), computed once
BuiltInPartitions ==
    [ Marshall4x12V30 |-> << PartitionsOf(MARSHALL_4X12_V30_IR, 1),
                             PartitionsOf(MARSHALL_4X12_V30_IR, 2), <<>>,
                             PartitionsOf(MARSHALL_4X12_V30_IR, 4) >>,
      FenderTwin2x12  |-> << PartitionsOf(FENDER_TWIN_2X12_IR, 1),
                             PartitionsOf(FENDER_TWIN_2X12_IR, 2), <<>>,
                             PartitionsOf(FENDER_TWIN_2X12_IR, 4) >>,
      VoxAC30Blue     |-> << PartitionsOf(VOX_AC30_BLUE_IR, 1),
                             PartitionsOf(VOX_AC30_BLUE_IR, 2), <<>>,
                             PartitionsOf(VOX_AC30_BLUE_IR, 4) >>,
      Mesa4x12Recto   |-> << PartitionsOf(MESA_4X12_RECTO_IR, 1),
                             PartitionsOf(MESA_4X12_RECTO_IR, 2), <<>>,
                             PartitionsOf(MESA_4X12_RECTO_IR, 4) >> ]

\* The partitions load_impulse_response computes for ir: PartitionsOf(ir, bs),
\* taken from BuiltInPartitions when ir is a built-in impulse response
IrPartitions(ir, bs) ==
    IF bs \in {1, 2, 4} /\ \E c \in DOMAIN cabinet_impulses : cabinet_impulses[c] = ir
    THEN BuiltInPartitions[CHOOSE c \in DOMAIN cabinet_impulses :
                               cabinet_impulses[c] = ir][bs]
    ELSE PartitionsOf(ir, bs)

\* Faulty variant of LengthCheck: >= for >, which turns away an impulse
\* response of exactly MaxIrLen samples
LengthCheckInclusive(ir) ==
    IF Len(ir) = 0 THEN "EmptyImpulseResponse"
    ELSE IF Len(ir) >= MaxIrLen THEN "ImpulseResponseTooLong"
    ELSE "Ok"

\* The two length checks at the head of load_impulse_response
LengthCheck(ir) ==
    IF Len(ir) = 0 THEN "EmptyImpulseResponse"
    ELSE IF Len(ir) > MaxIrLen THEN "ImpulseResponseTooLong"
    ELSE "Ok"

\* Faulty variant of LoadImpulseResponse: the lines under "Reset processing
\* state" are left out, so the samples and the overlap of the old stream
\* stay in the engine
LoadImpulseResponseNoReset(e, ir, fail_at) ==
    IF LengthCheck(ir) # "Ok"
    THEN [eng |-> e, result |-> LengthCheck(ir)]
    ELSE IF fail_at > 0 /\ fail_at <= NumChunks(ir, e.block_size)
    THEN [eng |-> [e EXCEPT !.ir_partitions =
                        SubSeq(IrPartitions(ir, e.block_size), 1, fail_at - 1)],
          result |-> "FftError"]
    ELSE [eng |-> [e EXCEPT !.ir_partitions = IrPartitions(ir, e.block_size)],
          result |-> "Ok"]

\* Faulty variant of LoadImpulseResponse: ir_partitions is not cleared, so
\* the new partitions are appended to those of the load before
LoadImpulseResponseAppend(e, ir, fail_at) ==
    IF LengthCheck(ir) # "Ok"
    THEN [eng |-> e, result |-> LengthCheck(ir)]
    ELSE IF fail_at > 0 /\ fail_at <= NumChunks(ir, e.block_size)
    THEN [eng |-> [e EXCEPT !.ir_partitions =
                        e.ir_partitions
                            \o SubSeq(IrPartitions(ir, e.block_size), 1, fail_at - 1)],
          result |-> "FftError"]
    ELSE [eng |-> [e EXCEPT
                     !.ir_partitions = e.ir_partitions \o IrPartitions(ir, e.block_size),
                     !.input_buffer = <<>>,
                     !.overlap_buffer = Zeros(e.block_size),
                     !.buffer_position = 0],
          result |-> "Ok"]

\* Faulty variant of LoadImpulseResponse: the partitions are cleared and the
\* processing state is reset before the length checks, so a rejected load
\* empties the engine
LoadImpulseResponseClearFirst(e, ir, fail_at) ==
    IF LengthCheck(ir) # "Ok"
    THEN [eng |-> [e EXCEPT !.ir_partitions = <<>>,
                            !.input_buffer = <<>>,
                            !.overlap_buffer = Zeros(e.block_size),
                            !.buffer_position = 0],
          result |-> LengthCheck(ir)]
    ELSE IF fail_at > 0 /\ fail_at <= NumChunks(ir, e.block_size)
    THEN [eng |-> [e EXCEPT !.ir_partitions =
                        SubSeq(IrPartitions(ir, e.block_size), 1, fail_at - 1)],
          result |-> "FftError"]
    ELSE [eng |-> [e EXCEPT
                     !.ir_partitions = IrPartitions(ir, e.block_size),
                     !.input_buffer = <<>>,
                     !.overlap_buffer = Zeros(e.block_size),
                     !.buffer_position = 0],
          result |-> "Ok"]

\* PartitionedConvolution::load_impulse_response.  fail_at = 0: every
\* transform succeeds; fail_at = p > 0: the transform of chunk p returns an
\* error (map_err(..)?), after ir_partitions was cleared and p-1 partitions
\* were pushed, and before the processing state is reset.
LoadImpulseResponse(e, ir, fail_at) ==
    IF LengthCheck(ir) # "Ok"
    THEN [eng |-> e, result |-> LengthCheck(ir)]
    ELSE IF fail_at > 0 /\ fail_at <= NumChunks(ir, e.block_size)
    THEN [eng |-> [e EXCEPT !.ir_partitions =
                        SubSeq(IrPartitions(ir, e.block_size), 1, fail_at - 1)],
          result |-> "FftError"]
    ELSE [eng |-> [e EXCEPT
                     !.ir_partitions = IrPartitions(ir, e.block_size),
                     !.input_buffer = <<>>,
                     !.overlap_buffer = Zeros(e.block_size),
                     !.buffer_position = 0],
          result |-> "Ok"]

RECURSIVE PartitionSum(_, _, _, _, _)
\* The partition loop of process_block for bin i: the sum of
\* input_bin * ir_bin over the partitions lo..hi.  The code adds them in
\* the order of the partitions; the sum is taken in halves here, which in
\* the exact arithmetic of the model is the same value.
PartitionSum(input_bin, parts, i, lo, hi) ==
    IF lo > hi THEN CZero
    ELSE IF lo = hi THEN CMul(input_bin, parts[lo][i])
    ELSE CAdd(PartitionSum(input_bin, parts, i, lo, (lo + hi) \div 2),
              PartitionSum(input_bin, parts, i, (lo + hi) \div 2 + 1, hi))

\* result_spectrum after the partition loop of process_block, from the
\* accumulator of zeros
AccumulatePartitions(input_spectrum, parts) ==
    Fix([i \in 1..Len(input_spectrum) |->
            CAdd(CZero, PartitionSum(input_spectrum[i], parts, i, 1, Len(parts)))])

\* The two loops that end process_block, in the order of the code: first
\* overlap_buffer[i] += fft_scratch[i], then overlap_buffer[i] =
\* fft_scratch[i + block_size]
OverlapAdd(overlap, scratch, bs) ==
    LET added == Fix([i \in 1..bs |->
                    IF i <= Len(overlap) THEN overlap[i] + scratch[i] ELSE overlap[i]])
    IN  Fix([i \in 1..bs |->
            IF (i - 1) + bs < Len(scratch) THEN scratch[i + bs] ELSE added[i]])

\* PartitionedConvolution::process_block.  fft is "ok", or "fwd_err" /
\* "inv_err" when the forward / inverse transform returns an error
ProcessBlock(e, fft) ==
    IF e.ir_partitions = <<>> THEN e
    ELSE
        LET padded == PadTo(e.input_buffer, e.fft_scratch_len)
        IN  IF fft = "fwd_err" THEN e
            ELSE
                LET input_spectrum == FftForward(padded, e.fft_size)
                    result_spectrum ==
                        AccumulatePartitions(input_spectrum, e.ir_partitions)
                IN  IF fft = "inv_err"
                    THEN e
                    ELSE
                        LET scratch == FftInverse(result_spectrum, e.fft_size)
                        IN  [e EXCEPT
                               !.overlap_buffer =
                                   OverlapAdd(e.overlap_buffer, scratch, e.block_size),
                               !.buffer_position = 0]

\* Whether a process_sample call on e runs process_block's transforms
RunsBlock(e) == Len(e.input_buffer) >= e.block_size /\ e.ir_partitions # <<>>

\* Faulty variant of ConvProcessSample: once the buffer is full the oldest
\* sample is not removed (no pop_front), so the input buffer keeps growing
ConvProcessSampleNoPop(e, input, fft) ==
    IF Len(e.input_buffer) < e.block_size
    THEN
        LET pushed == [e EXCEPT !.input_buffer = Append(e.input_buffer, input)]
        IN  IF e.buffer_position < Len(e.overlap_buffer)
            THEN [eng |-> [pushed EXCEPT !.buffer_position = e.buffer_position + 1],
                  out |-> e.overlap_buffer[e.buffer_position + 1]]
            ELSE [eng |-> pushed, out |-> 0]
    ELSE
        LET b == ProcessBlock(e, fft)
        IN  [eng |-> [b EXCEPT
                        !.input_buffer = Append(b.input_buffer, input),
                        !.buffer_position = 1],
             out |-> b.overlap_buffer[1]]

\* PartitionedConvolution::process_sample: the engine after the call and
\* the value returned
ConvProcessSample(e, input, fft) ==
    IF Len(e.input_buffer) < e.block_size
    THEN
        LET pushed == [e EXCEPT !.input_buffer = Append(e.input_buffer, input)]
        IN  IF e.buffer_position < Len(e.overlap_buffer)
            THEN [eng |-> [pushed EXCEPT !.buffer_position = e.buffer_position + 1],
                  out |-> e.overlap_buffer[e.buffer_position + 1]]
            ELSE [eng |-> pushed, out |-> 0]
    ELSE
        LET b == ProcessBlock(e, fft)
        IN  [eng |-> [b EXCEPT
                        !.input_buffer = Append(Tail(b.input_buffer), input),
                        !.buffer_position = 1],
             out |-> b.overlap_buffer[1]]

\* Faulty variant of ConvReset: the overlap buffer is emptied (clear) and
\* not filled with zeros
ConvResetClear(e) ==
    [e EXCEPT !.input_buffer = <<>>,
              !.overlap_buffer = <<>>,
              !.buffer_position = 0]

\* Faulty variant of ConvReset: the overlap buffer is not zeroed
ConvResetKeepOverlap(e) ==
    [e EXCEPT !.input_buffer = <<>>,
              !.buffer_position = 0]

\* PartitionedConvolution::reset
ConvReset(e) ==
    [e EXCEPT !.input_buffer = <<>>,
              !.overlap_buffer = Zeros(e.block_size),
              !.buffer_position = 0]

\* PartitionedConvolution::get_latency
ConvGetLatency(e) == e.block_size

\* The engine is in mid-stream: it holds input samples and a non-zero overlap
Dirty(e) == e.input_buffer # <<>> /\ ~AllZero(e.overlap_buffer)

\* The processing state load_impulse_response and reset leave behind
IsResetState(e) ==
    /\ e.input_buffer = <<>>
    /\ Len(e.overlap_buffer) = e.block_size
    /\ AllZero(e.overlap_buffer)
    /\ e.buffer_position = 0

---------------------------------------------------------------------------
\* CabinetSimulator and the cabinet part of GuitarFxProcessor

\* Fixed-point product of two f32 values
FMul(a, b) == (a * b) \div One

\* impl Enum for CabinetType: to_index
ToIndex(c) ==
    CASE c = "Marshall4x12V30" -> 0
      [] c = "FenderTwin2x12" -> 1
      [] c = "VoxAC30Blue" -> 2
      [] c = "Mesa4x12Recto" -> 3
      [] c = "Direct" -> 4

\* Faulty variant of FromIndex: an index above 4 gives Direct
FromIndexFallbackDirect(index) ==
    CASE index = 0 -> "Marshall4x12V30"
      [] index = 1 -> "FenderTwin2x12"
      [] index = 2 -> "VoxAC30Blue"
      [] index = 3 -> "Mesa4x12Recto"
      [] OTHER -> "Direct"

\* impl Enum for CabinetType: from_index
FromIndex(index) ==
    CASE index = 0 -> "Marshall4x12V30"
      [] index = 1 -> "FenderTwin2x12"
      [] index = 2 -> "VoxAC30Blue"
      [] index = 3 -> "Mesa4x12Recto"
      [] index = 4 -> "Direct"
      [] OTHER -> "Marshall4x12V30"

\* Faulty variant of LoadCabinet: current_cabinet is stored before the
\* impulse response is loaded, so it changes even when the load fails
LoadCabinetAssignFirst(e, cur, cabinet_type, fail_at) ==
    IF cabinet_type = "Direct"
    THEN [eng |-> ConvReset(e), cur |-> cabinet_type, result |-> "Ok"]
    ELSE IF cabinet_type \in DOMAIN cabinet_impulses
    THEN LET r == LoadImpulseResponse(e, cabinet_impulses[cabinet_type], fail_at)
         IN  [eng |-> r.eng, cur |-> cabinet_type, result |-> r.result]
    ELSE [eng |-> e, cur |-> cur, result |-> "EmptyImpulseResponse"]

\* Faulty variant of LoadCabinet: Direct is not handled apart, so it is
\* looked up in cabinet_impulses, where it has no entry
LoadCabinetNoDirect(e, cur, cabinet_type, fail_at) ==
    IF cabinet_type \in DOMAIN cabinet_impulses
    THEN LET r == LoadImpulseResponse(e, cabinet_impulses[cabinet_type], fail_at)
         IN  IF r.result = "Ok"
             THEN [eng |-> r.eng, cur |-> cabinet_type, result |-> "Ok"]
             ELSE [eng |-> r.eng, cur |-> cur, result |-> r.result]
    ELSE [eng |-> e, cur |-> cur, result |-> "EmptyImpulseResponse"]

\* Faulty variant of LoadCabinet: Direct is stored as the current cabinet
\* but the engine is not reset
LoadCabinetDirectNoReset(e, cur, cabinet_type, fail_at) ==
    IF cabinet_type = "Direct"
    THEN [eng |-> e, cur |-> cabinet_type, result |-> "Ok"]
    ELSE IF cabinet_type \in DOMAIN cabinet_impulses
    THEN LET r == LoadImpulseResponse(e, cabinet_impulses[cabinet_type], fail_at)
         IN  IF r.result = "Ok"
             THEN [eng |-> r.eng, cur |-> cabinet_type, result |-> "Ok"]
             ELSE [eng |-> r.eng, cur |-> cur, result |-> r.result]
    ELSE [eng |-> e, cur |-> cur, result |-> "EmptyImpulseResponse"]

\* CabinetSimulator::load_cabinet on engine e with current cabinet cur.
\* fail_at is the chunk whose transform fails in load_impulse_response
\* (0: none)
LoadCabinet(e, cur, cabinet_type, fail_at) ==
    IF cabinet_type = "Direct"
    THEN [eng |-> ConvReset(e), cur |-> cabinet_type, result |-> "Ok"]
    ELSE IF cabinet_type \in DOMAIN cabinet_impulses
    THEN LET r == LoadImpulseResponse(e, cabinet_impulses[cabinet_type], fail_at)
         IN  IF r.result = "Ok"
             THEN [eng |-> r.eng, cur |-> cabinet_type, result |-> "Ok"]
             ELSE [eng |-> r.eng, cur |-> cur, result |-> r.result]
    ELSE [eng |-> e, cur |-> cur, result |-> "EmptyImpulseResponse"]

\* CabinetSimulator::new: the fields after the default cabinet was loaded
\* (an error of that load is only printed)
CabinetNew(bs) ==
    LET r == LoadCabinet(ConvNew(bs), "Marshall4x12V30", "Marshall4x12V30", 0)
    IN  [eng |-> r.eng, cur |-> r.cur, mix |-> One]

\* Faulty variant of CabProcessSample: no bypass for Direct, every sample
\* goes through the engine and the mix
CabProcessSampleNoBypass(e, cur, m, input, fft) ==
    LET r == ConvProcessSample(e, input, fft)
        dry_signal == FMul(input, One - m)
        cabinet_signal == FMul(r.out, m)
    IN  [eng |-> r.eng, out |-> dry_signal + cabinet_signal, wet |-> r.out]

\* Faulty variant of CabProcessSample: the two weights of the mix are
\* exchanged (mix weighs the dry signal)
CabProcessSampleSwappedMix(e, cur, m, input, fft) ==
    IF cur = "Direct"
    THEN [eng |-> e, out |-> input, wet |-> 0]
    ELSE LET r == ConvProcessSample(e, input, fft)
             dry_signal == FMul(input, m)
             cabinet_signal == FMul(r.out, One - m)
         IN  [eng |-> r.eng, out |-> dry_signal + cabinet_signal, wet |-> r.out]

\* Faulty variant of CabProcessSample: the wet path is dead, the value of
\* the engine is computed and dropped and the input is returned
CabProcessSampleDryOnly(e, cur, m, input, fft) ==
    IF cur = "Direct"
    THEN [eng |-> e, out |-> input, wet |-> 0]
    ELSE LET r == ConvProcessSample(e, input, fft)
         IN  [eng |-> r.eng, out |-> input, wet |-> r.out]

\* CabinetSimulator::process_sample: the engine after the call, the value
\* returned (out) and the value the engine returned (wet; 0 when the engine
\* is bypassed)
CabProcessSample(e, cur, m, input, fft) ==
    IF cur = "Direct"
    THEN [eng |-> e, out |-> input, wet |-> 0]
    ELSE LET r == ConvProcessSample(e, input, fft)
             dry_signal == FMul(input, One - m)
             cabinet_signal == FMul(r.out, m)
         IN  [eng |-> r.eng, out |-> dry_signal + cabinet_signal, wet |-> r.out]

\* Faulty variant of SetMix: the value is stored without the clamp
SetMixUnclamped(m) == m

\* CabinetSimulator::set_mix: mix.clamp(0.0, 1.0)
SetMix(m) == IF m < 0 THEN 0 ELSE IF m > One THEN One ELSE m

\* CabinetSimulator::get_current_cabinet
GetCurrentCabinet(cur) == cur

\* Faulty variant of CabGetLatency: the latency of the engine also for Direct
CabGetLatencyAlways(e, cur) == ConvGetLatency(e)

\* CabinetSimulator::get_latency
CabGetLatency(e, cur) == IF cur = "Direct" THEN 0 ELSE ConvGetLatency(e)

\* GuitarFxProcessor::get_latency
ProcessorGetLatency(e, cur) == CabGetLatency(e, cur)

\* Faulty variant of UpdateCabinet: the cabinet is reloaded on every call,
\* also when the type is the current one
UpdateCabinetAlwaysReload(e, cur, cabinet_type, fail_at) ==
    LET r == LoadCabinet(e, cur, cabinet_type, fail_at)
    IN  [eng |-> r.eng, cur |-> r.cur, result |-> r.result, reloaded |-> TRUE]

\* GuitarFxProcessor::update_cabinet, the cabinet part: load_cabinet is
\* called only when the type differs from the current one, and its error is
\* only printed (result keeps it for observation; reloaded: it was called)
UpdateCabinet(e, cur, cabinet_type, fail_at) ==
    IF cabinet_type # GetCurrentCabinet(cur)
    THEN LET r == LoadCabinet(e, cur, cabinet_type, fail_at)
         IN  [eng |-> r.eng, cur |-> r.cur, result |-> r.result, reloaded |-> TRUE]
    ELSE [eng |-> e, cur |-> cur, result |-> "Ok", reloaded |-> FALSE]

---------------------------------------------------------------------------
\* BiquadFilter and ToneStack (src/src/dsp/filters.rs, and the low_pass and
\* high_pass extensions of src/src/dsp/amp_sim.rs)
\*
\* A coefficient c is held as the integer c * CoefOne, a sample and a
\* register as the integer v * One, and the product of a coefficient and a
\* sample is rounded down to a multiple of 1/One, where f32 rounds to 24
\* bits.  With whole coefficients the products are exact.  cos, sin and
\* powf are computed by their power series in the same fixed point, so a
\* configured coefficient is the value of the formula of the code up to
\* about 0.001.

\* 1.0 as a coefficient
CoefOne == 10000

\* std::f32::consts::PI
Pi == 31416

\* ln(10), for 10.0_f32.powf(x) = exp(x * ln(10))
Ln10 == 23026

\* a * b and a / b of two values held as multiples of 1/CoefOne
QMul(a, b) == (a * b) \div CoefOne
QDiv(a, b) == (a * CoefOne) \div b

\* f32::cos, for 0 <= w < pi/2
Cos(w) ==
    LET w2 == QMul(w, w)
        w4 == QMul(w2, w2)
        w6 == QMul(w4, w2)
        w8 == QMul(w4, w4)
    IN  CoefOne - (w2 \div 2) + (w4 \div 24) - (w6 \div 720) + (w8 \div 40320)

\* f32::sin, for 0 <= w < pi/2
Sin(w) ==
    LET w2 == QMul(w, w)
        w3 == QMul(w2, w)
        w5 == QMul(w3, w2)
        w7 == QMul(w5, w2)
    IN  w - (w3 \div 6) + (w5 \div 120) - (w7 \div 5040)

\* f32::exp, for -1 < x < 1
Exp(x) ==
    LET x2 == QMul(x, x)
        x3 == QMul(x2, x)
        x4 == QMul(x2, x2)
        x5 == QMul(x4, x)
    IN  CoefOne + x + (x2 \div 2) + (x3 \div 6) + (x4 \div 24) + (x5 \div 120)

\* 2.0 * PI * freq / sample_rate (freq and sample_rate in Hz)
Omega(freq, sample_rate) == (2 * Pi * freq) \div sample_rate

\* coefficient * sample
CoefMul(c, x) == (c * x) \div CoefOne

\* BiquadFilter::new
BiquadFilterNew ==
    [b0 |-> CoefOne, b1 |-> 0, b2 |-> 0, a1 |-> 0, a2 |-> 0, z1 |-> 0, z2 |-> 0]

\* the five coefficients of a filter
Coefficients(f) == <<f.b0, f.b1, f.b2, f.a1, f.a2>>

\* BiquadFilter::set_coefficients
SetCoefficients(f, b0, b1, b2, a1, a2) ==
    [f EXCEPT !.b0 = b0, !.b1 = b1, !.b2 = b2, !.a1 = a1, !.a2 = a2]

\* Faulty variant of PeakingEq: the registers are zeroed with the new
\* coefficients
PeakingEqResets(f, freq, gain_db, q, sample_rate) ==
    LET a == Exp((gain_db * Ln10) \div 40)
        w == Omega(freq, sample_rate)
        cos_w == Cos(w)
        sin_w == Sin(w)
        alpha == QDiv(sin_w, 2 * q)
        b0 == CoefOne + QMul(alpha, a)
        b1 == -2 * cos_w
        b2 == CoefOne - QMul(alpha, a)
        a0 == CoefOne + QDiv(alpha, a)
        a1 == -2 * cos_w
        a2 == CoefOne - QDiv(alpha, a)
    IN  [f EXCEPT !.b0 = QDiv(b0, a0),
                  !.b1 = QDiv(b1, a0),
                  !.b2 = QDiv(b2, a0),
                  !.a1 = QDiv(a1, a0),
                  !.a2 = QDiv(a2, a0),
                  !.z1 = 0,
                  !.z2 = 0]

\* BiquadFilter::peaking_eq (gain_db in dB, q as a coefficient)
PeakingEq(f, freq, gain_db, q, sample_rate) ==
    LET a == Exp((gain_db * Ln10) \div 40)
        w == Omega(freq, sample_rate)
        cos_w == Cos(w)
        sin_w == Sin(w)
        alpha == QDiv(sin_w, 2 * q)
        b0 == CoefOne + QMul(alpha, a)
        b1 == -2 * cos_w
        b2 == CoefOne - QMul(alpha, a)
        a0 == CoefOne + QDiv(alpha, a)
        a1 == -2 * cos_w
        a2 == CoefOne - QDiv(alpha, a)
    IN  [f EXCEPT !.b0 = QDiv(b0, a0),
                  !.b1 = QDiv(b1, a0),
                  !.b2 = QDiv(b2, a0),
                  !.a1 = QDiv(a1, a0),
                  !.a2 = QDiv(a2, a0)]

\* BiquadFilter::low_pass
LowPass(f, freq, q, sample_rate) ==
    LET w == Omega(freq, sample_rate)
        cos_w == Cos(w)
        sin_w == Sin(w)
        alpha == QDiv(sin_w, 2 * q)
        b0 == (CoefOne - cos_w) \div 2
        b1 == CoefOne - cos_w
        b2 == (CoefOne - cos_w) \div 2
        a0 == CoefOne + alpha
        a1 == -2 * cos_w
        a2 == CoefOne - alpha
    IN  SetCoefficients(f, QDiv(b0, a0), QDiv(b1, a0), QDiv(b2, a0),
                        QDiv(a1, a0), QDiv(a2, a0))

\* BiquadFilter::high_pass
HighPass(f, freq, q, sample_rate) ==
    LET w == Omega(freq, sample_rate)
        cos_w == Cos(w)
        sin_w == Sin(w)
        alpha == QDiv(sin_w, 2 * q)
        b0 == (CoefOne + cos_w) \div 2
        b1 == -(CoefOne + cos_w)
        b2 == (CoefOne + cos_w) \div 2
        a0 == CoefOne + alpha
        a1 == -2 * cos_w
        a2 == CoefOne - alpha
    IN  SetCoefficients(f, QDiv(b0, a0), QDiv(b1, a0), QDiv(b2, a0),
                        QDiv(a1, a0), QDiv(a2, a0))

\* Faulty variant of BiquadProcess: z2 is updated before z1, so z1 is
\* computed from the new z2
BiquadProcessNewZ2(f, input) ==
    LET output == CoefMul(f.b0, input) + f.z1
        z2 == CoefMul(f.b2, input) - CoefMul(f.a2, output)
        z1 == CoefMul(f.b1, input) - CoefMul(f.a1, output) + z2
    IN  [filter |-> [f EXCEPT !.z1 = z1, !.z2 = z2], out |-> output]

\* BiquadFilter::process: the filter after the call and the value returned
BiquadProcess(f, input) ==
    LET output == CoefMul(f.b0, input) + f.z1
        z1 == CoefMul(f.b1, input) - CoefMul(f.a1, output) + f.z2
        z2 == CoefMul(f.b2, input) - CoefMul(f.a2, output)
    IN  [filter |-> [f EXCEPT !.z1 = z1, !.z2 = z2], out |-> output]

\* BiquadFilter::reset
BiquadReset(f) == [f EXCEPT !.z1 = 0, !.z2 = 0]

\* ToneStack::update_controls, on the three filters of the stack
StackUpdateControls(stack, bass_db, mid_db, treble_db) ==
    [stack EXCEPT
        !.bass_filter = PeakingEq(@, 100, bass_db, (7 * CoefOne) \div 10, stack.sample_rate),
        !.mid_filter = PeakingEq(@, 500, mid_db, CoefOne, stack.sample_rate),
        !.treble_filter = PeakingEq(@, 3000, treble_db, (7 * CoefOne) \div 10, stack.sample_rate)]

\* ToneStack::new(sample_rate) with its three filters
StackNew(sample_rate) ==
    StackUpdateControls([bass_filter |-> BiquadFilterNew,
                         mid_filter |-> BiquadFilterNew,
                         treble_filter |-> BiquadFilterNew,
                         sample_rate |-> sample_rate],
                        0, 0, 0)

\* ToneStack::process: bass, then mid, then treble
StackProcess(stack, input) ==
    The({ The({ The({
        [stack |-> [stack EXCEPT !.bass_filter = x1.filter,
                                 !.mid_filter = x2.filter,
                                 !.treble_filter = x3.filter],
         out |-> x3.out]
        : x3 \in {BiquadProcess(stack.treble_filter, x2.out)} })
        : x2 \in {BiquadProcess(stack.mid_filter, x1.out)} })
        : x1 \in {BiquadProcess(stack.bass_filter, input)} })

---------------------------------------------------------------------------
\* AsymmetricClipper (src/src/dsp/distortion.rs)
\*
\* Inside the clipper a sample, a table entry and the fractional part of
\* the table position are held as multiples of 1/CoefOne; drive is held as
\* a multiple of 1/One.  atan is computed by its power series around 0.5.

\* f32::clamp
Clamp(v, lo, hi) == IF v < lo THEN lo ELSE IF v > hi THEN hi ELSE v

\* atan(0.5)
AtanHalf == 4636

\* f32::atan for 0 <= u < 1.5: atan(0.5) + atan((u - 0.5) / (1 + 0.5 * u)),
\* the second term by the power series of atan
AtanPos(u) ==
    LET v  == QDiv(u - CoefOne \div 2, CoefOne + u \div 2)
        v2 == QMul(v, v)
        v3 == QMul(v2, v)
        v5 == QMul(v3, v2)
        v7 == QMul(v5, v2)
        v9 == QMul(v7, v2)
    IN  AtanHalf + v - (v3 \div 3) + (v5 \div 5) - (v7 \div 7) + (v9 \div 9)

\* f32::atan for -1.5 < u < 1.5
Atan(u) == IF u = 0 THEN 0 ELSE IF u < 0 THEN -AtanPos(-u) ELSE AtanPos(u)

\* AsymmetricClipper::asymmetric_waveshape
AsymmetricWaveshape(x) ==
    IF x >= 0
    THEN LET normalized == QDiv(x, CoefOne + x)
         IN  QMul(QDiv(2 * CoefOne, Pi), Atan(normalized))
    ELSE LET normalized == -QDiv(-x, CoefOne - QMul(x, (7 * CoefOne) \div 10))
         IN  QMul(QMul(QDiv(2 * CoefOne, Pi), Atan(normalized)), (8 * CoefOne) \div 10)

\* TABLE_SIZE of AsymmetricClipper::new
TABLE_SIZE == 1024

\* INPUT_RANGE of AsymmetricClipper::new: -4.0 to +4.0
INPUT_RANGE == 8

\* AsymmetricClipper::new: entry i of the code is element i + 1 of
\* lookup_table
AsymmetricClipperNew ==
    [ lookup_table |-> Fix([i \in 1..TABLE_SIZE |->
                              AsymmetricWaveshape(((i - 1) * INPUT_RANGE * CoefOne) \div TABLE_SIZE
                                                  - (INPUT_RANGE * CoefOne) \div 2)]),
      table_size   |-> TABLE_SIZE,
      input_scale  |-> TABLE_SIZE \div INPUT_RANGE ]

\* Faulty variant of AsymmetricClipperProcess: the bounds check compares
\* with table_size, so the last cell is interpolated with the entry after
\* the end of the table
AsymmetricClipperProcessLateCheck(clipper, input, drive) ==
    LET driven_input == Clamp((input * drive) \div One, -4 * CoefOne, 4 * CoefOne)
        table_pos == (driven_input + 4 * CoefOne) * clipper.input_scale
        table_index == table_pos \div CoefOne
        frac == table_pos - table_index * CoefOne
        saturated == table_index >= clipper.table_size
        reads == IF saturated THEN <<clipper.table_size - 1>>
                 ELSE <<table_index, table_index + 1>>
        panicked == \E k \in 1..Len(reads) : reads[k] \notin 0..(Len(clipper.lookup_table) - 1)
        out == IF panicked THEN 0
               ELSE IF saturated THEN clipper.lookup_table[clipper.table_size]
               ELSE LET y0 == clipper.lookup_table[table_index + 1]
                        y1 == clipper.lookup_table[table_index + 2]
                    IN  y0 + QMul(frac, y1 - y0)
    IN  [ out |-> out, driven_input |-> driven_input, table_index |-> table_index,
          frac |-> frac, reads |-> reads, panicked |-> panicked ]

\* AsymmetricClipper::process(input, drive): the value returned (out), the
\* intermediate values, the table indices read in the order they were read
\* (reads), and whether a read was outside the table (panicked: the index
\* check of Vec panics, nothing is returned and out is 0 here)
AsymmetricClipperProcess(clipper, input, drive) ==
    LET driven_input == Clamp((input * drive) \div One, -4 * CoefOne, 4 * CoefOne)
        table_pos == (driven_input + 4 * CoefOne) * clipper.input_scale
        table_index == table_pos \div CoefOne
        frac == table_pos - table_index * CoefOne
        saturated == table_index >= clipper.table_size - 1
        reads == IF saturated THEN <<clipper.table_size - 1>>
                 ELSE <<table_index, table_index + 1>>
        panicked == \E k \in 1..Len(reads) : reads[k] \notin 0..(Len(clipper.lookup_table) - 1)
        out == IF panicked THEN 0
               ELSE IF saturated THEN clipper.lookup_table[clipper.table_size]
               ELSE LET y0 == clipper.lookup_table[table_index + 1]
                        y1 == clipper.lookup_table[table_index + 2]
                    IN  y0 + QMul(frac, y1 - y0)
    IN  [ out |-> out, driven_input |-> driven_input, table_index |-> table_index,
          frac |-> frac, reads |-> reads, panicked |-> panicked ]

---------------------------------------------------------------------------
\* GuitarFxProcessor: the per-sample pipeline (src/src/dsp/mod.rs)
\*
\* The stages before the cabinet compute with f32 functions (atan, sin,
\* cos, powf) that have no exact integer form, so the pipeline is modelled
\* over uninterpreted values: the value a call returns is the record of the
\* function called, the state of the object it was called on and its
\* arguments.  The state of a stateful stage is the sequence of the calls
\* made on it since it was constructed, which determines its registers.
\* Two values are equal only if they were computed by the same calls on
\* the same arguments in the same order.  The coefficients of the filters
\* of a stage are carried with it, as the fixed-point values peaking_eq,
\* low_pass and high_pass compute.

\* x * gain (f32 multiplication)
Mul(x, gain) == [fn |-> "f32::mul", state |-> "none", args |-> <<x, gain>>]

\* the sample rate TubeStage::new configures its filters for
TubeStageSampleRate == 44100

\* TubeStage::initialize_filters(sample_rate): the coefficients of the
\* high-frequency rolloff and of the DC blocker
TubeStageInitializeFilters(stage, sample_rate) ==
    [stage EXCEPT
        !.hf_rolloff = Coefficients(LowPass(BiquadFilterNew, 8000, (707 * CoefOne) \div 1000,
                                            sample_rate)),
        !.dc_blocker = Coefficients(HighPass(BiquadFilterNew, 20, (707 * CoefOne) \div 1000,
                                             sample_rate))]

\* TubeStage::new(): no call made yet, the filters configured for 44100 Hz
TubeStageNew ==
    TubeStageInitializeFilters([made |-> "TubeStage::new", calls |-> <<>>,
                                hf_rolloff |-> Coefficients(BiquadFilterNew),
                                dc_blocker |-> Coefficients(BiquadFilterNew)],
                               TubeStageSampleRate)

\* TubeStage::process(input, drive): the stage after the call and the
\* value returned
TubeStageProcess(stage, input, drive) ==
    [ stage |-> [stage EXCEPT !.calls = Append(stage.calls, <<"process", input, drive>>)],
      out   |-> [fn |-> "TubeStage::process", state |-> stage, args |-> <<input, drive>>] ]

\* ToneStack::update_controls(bass_db, mid_db, treble_db): the coefficients
\* of the three filters are recomputed, their registers are kept
ToneStackUpdateControls(stack, bass_db, mid_db, treble_db) ==
    LET filters == StackUpdateControls(StackNew(stack.sample_rate), bass_db, mid_db, treble_db)
    IN  [stack EXCEPT !.calls = Append(stack.calls,
                                       <<"update_controls", bass_db, mid_db, treble_db>>),
                      !.bass_filter = Coefficients(filters.bass_filter),
                      !.mid_filter = Coefficients(filters.mid_filter),
                      !.treble_filter = Coefficients(filters.treble_filter)]

\* ToneStack::new(sample_rate): three new filters, then update_controls(0, 0, 0)
ToneStackNew(sample_rate) ==
    ToneStackUpdateControls([made |-> <<"ToneStack::new", sample_rate>>, calls |-> <<>>,
                             sample_rate |-> sample_rate,
                             bass_filter |-> Coefficients(BiquadFilterNew),
                             mid_filter |-> Coefficients(BiquadFilterNew),
                             treble_filter |-> Coefficients(BiquadFilterNew)],
                            0, 0, 0)

\* ToneStack::process(input)
ToneStackProcess(stack, input) ==
    [ stage |-> [stack EXCEPT !.calls = Append(stack.calls, <<"process", input>>)],
      out   |-> [fn |-> "ToneStack::process", state |-> stack, args |-> <<input>>] ]

\* AsymmetricClipper::new(): the lookup table, never changed afterwards
ClipperNew == [made |-> "AsymmetricClipper::new", calls |-> <<>>]

\* AsymmetricClipper::process(&self, input, drive): the clipper is not
\* changed by the call
ClipperProcess(clipper, input, drive) ==
    [ stage |-> clipper,
      out   |-> [fn |-> "AsymmetricClipper::process", state |-> clipper,
                 args |-> <<input, drive>>] ]

\* CabinetSimulator::new(block_size, sample_rate) as a stage of the pipeline
CabinetStageNew(block_size, sample_rate) ==
    [made |-> <<"CabinetSimulator::new", block_size, sample_rate>>, calls |-> <<>>]

\* CabinetSimulator::process_sample(input) as a stage of the pipeline
CabinetStageProcess(cabinet, input) ==
    [ stage |-> [cabinet EXCEPT !.calls = Append(cabinet.calls, <<"process_sample", input>>)],
      out   |-> [fn |-> "CabinetSimulator::process_sample", state |-> cabinet,
                 args |-> <<input>>] ]

\* the default sample rate of GuitarFxProcessor::new
DefaultSampleRate == 44100

\* the block size GuitarFxProcessor gives its cabinet simulator
ProcessorBlockSize == 256

\* GuitarFxProcessor::new
ProcessorNew ==
    [ sample_rate       |-> DefaultSampleRate,
      tonestack         |-> ToneStackNew(DefaultSampleRate),
      clipper           |-> ClipperNew,
      tube_stage        |-> TubeStageNew,
      cabinet_simulator |-> CabinetStageNew(ProcessorBlockSize, DefaultSampleRate) ]

\* GuitarFxProcessor::initialize(sample_rate): the tone stack and the
\* cabinet simulator are replaced by new ones, the tube stage and the
\* clipper are kept
ProcessorInitialize(p, sample_rate) ==
    [p EXCEPT !.sample_rate = sample_rate,
              !.tonestack = ToneStackNew(sample_rate),
              !.cabinet_simulator = CabinetStageNew(ProcessorBlockSize, sample_rate)]

\* GuitarFxProcessor::update_tone_controls
ProcessorUpdateToneControls(p, bass_db, mid_db, treble_db) ==
    [p EXCEPT !.tonestack = ToneStackUpdateControls(p.tonestack, bass_db, mid_db, treble_db)]

\* One entry of the record of a process_sample call: the stage that ran,
\* the value it was given and the value it returned
StageCall(name, input, output) == [stage |-> name, input |-> input, output |-> output]

\* Faulty variant of ProcessorProcessSample: the clipper runs before the
\* tone stack
ProcessorProcessSampleClipFirst(p, input, input_gain, drive, output_gain) ==
    LET x1 == Mul(input, input_gain)
        x2 == TubeStageProcess(p.tube_stage, x1, drive)
        x3 == ClipperProcess(p.clipper, x2.out, drive)
        x4 == ToneStackProcess(p.tonestack, x3.out)
        x5 == CabinetStageProcess(p.cabinet_simulator, x4.out)
        x6 == Mul(x5.out, output_gain)
    IN  [ proc |-> [p EXCEPT !.tube_stage = x2.stage,
                             !.tonestack = x4.stage,
                             !.clipper = x3.stage,
                             !.cabinet_simulator = x5.stage],
          out  |-> x6,
          log  |-> << StageCall("input_gain", input, x1),
                      StageCall("tube_stage", x1, x2.out),
                      StageCall("clipper", x2.out, x3.out),
                      StageCall("tonestack", x3.out, x4.out),
                      StageCall("cabinet_simulator", x4.out, x5.out),
                      StageCall("output_gain", x5.out, x6) >> ]

\* GuitarFxProcessor::process_sample: the processor after the call, the
\* value returned and the stage calls made, in the order they were made
ProcessorProcessSample(p, input, input_gain, drive, output_gain) ==
    LET x1 == Mul(input, input_gain)
        x2 == TubeStageProcess(p.tube_stage, x1, drive)
        x3 == ToneStackProcess(p.tonestack, x2.out)
        x4 == ClipperProcess(p.clipper, x3.out, drive)
        x5 == CabinetStageProcess(p.cabinet_simulator, x4.out)
        x6 == Mul(x5.out, output_gain)
    IN  [ proc |-> [p EXCEPT !.tube_stage = x2.stage,
                             !.tonestack = x3.stage,
                             !.clipper = x4.stage,
                             !.cabinet_simulator = x5.stage],
          out  |-> x6,
          log  |-> << StageCall("input_gain", input, x1),
                      StageCall("tube_stage", x1, x2.out),
                      StageCall("tonestack", x2.out, x3.out),
                      StageCall("clipper", x3.out, x4.out),
                      StageCall("cabinet_simulator", x4.out, x5.out),
                      StageCall("output_gain", x5.out, x6) >> ]

---------------------------------------------------------------------------
\* The pipeline in numbers: TubeSaturation and TubeStage
\* (src/src/dsp/distortion.rs, src/src/dsp/amp_sim.rs) and GuitarFxProcessor
\* (src/src/dsp/mod.rs) over the filters, the clipper and the cabinet
\* simulator above.
\*
\* A sample of the stages before the cabinet is held as a multiple of
\* 1/CoefOne; the cabinet simulator and the callers hold a sample as a
\* multiple of 1/One, and the value that enters the cabinet is rounded down
\* to it.  Gains and drive are multiples of 1/One.  The cabinet simulator
\* has the block size of the model where the code gives it 256.

\* the clipper AsymmetricClipper::new() builds
Clipper == AsymmetricClipperNew

\* the block size that stands for the 256 of GuitarFxProcessor
ModelBlockSize == 2

\* TubeSaturation::new
TubeSaturationNew == [bias |-> 0, bias_coeff |-> (999 * CoefOne) \div 1000]

\* TubeSaturation::tube_transfer_function
TubeTransferFunction(x) ==
    LET normalized == Clamp(x, -2 * CoefOne, 2 * CoefOne)
    IN  IF normalized >= 0
        THEN QDiv(normalized, CoefOne + QMul(QMul(normalized, normalized), CoefOne \div 2))
        ELSE -QDiv(-normalized, CoefOne - QMul(normalized, (3 * CoefOne) \div 10))

\* TubeSaturation::process: the tube after the call and the value returned
TubeSaturationProcess(tube, input, drive) ==
    LET input_level == Abs((input * drive) \div One)
        target_bias == QMul(input_level, CoefOne \div 10)
        bias == QMul(tube.bias, tube.bias_coeff)
                + QMul(target_bias, CoefOne - tube.bias_coeff)
        biased_input == input + QMul(bias, CoefOne \div 2)
        saturated == TubeTransferFunction((biased_input * drive) \div One)
    IN  [tube |-> [tube EXCEPT !.bias = bias],
         out  |-> QMul(saturated, (95 * CoefOne) \div 100)]

\* TubeStage::new, with TubeStage::initialize_filters(44100.0); the clipper
\* of the stage is Clipper
TubeNew ==
    [ input_tube |-> TubeSaturationNew,
      hf_rolloff |-> LowPass(BiquadFilterNew, 8000, (707 * CoefOne) \div 1000,
                             TubeStageSampleRate),
      dc_blocker |-> HighPass(BiquadFilterNew, 20, (707 * CoefOne) \div 1000,
                              TubeStageSampleRate) ]

\* TubeStage::process: tube, then clipper at half the drive, then
\* high-frequency rolloff, then DC blocker
TubeProcess(stage, input, drive) ==
    The({ The({ The({ The({
        [stage |-> [stage EXCEPT !.input_tube = x1.tube,
                                 !.hf_rolloff = x3.filter,
                                 !.dc_blocker = x4.filter],
         out |-> x4.out]
        : x4 \in {BiquadProcess(stage.dc_blocker, x3.out)} })
        : x3 \in {BiquadProcess(stage.hf_rolloff, x2.out)} })
        : x2 \in {AsymmetricClipperProcess(Clipper, x1.out, drive \div 2)} })
        : x1 \in {TubeSaturationProcess(stage.input_tube, input, drive)} })

\* GuitarFxProcessor::new, its cabinet simulator of block size bs
PipelineNew(bs) ==
    LET c == CabinetNew(bs)
    IN  [ sample_rate       |-> DefaultSampleRate,
          tonestack         |-> StackNew(DefaultSampleRate),
          tube_stage        |-> TubeNew,
          cabinet_simulator |-> [eng |-> c.eng, cur |-> c.cur, mix |-> c.mix] ]

\* GuitarFxProcessor::initialize: a new tone stack and a new cabinet
\* simulator; the tube stage is kept
PipelineInitialize(p, sample_rate) ==
    LET c == CabinetNew(p.cabinet_simulator.eng.block_size)
    IN  [p EXCEPT !.sample_rate = sample_rate,
                  !.tonestack = StackNew(sample_rate),
                  !.cabinet_simulator = [eng |-> c.eng, cur |-> c.cur, mix |-> c.mix]]

\* GuitarFxProcessor::update_tone_controls
PipelineUpdateToneControls(p, bass_db, mid_db, treble_db) ==
    [p EXCEPT !.tonestack = StackUpdateControls(@, bass_db, mid_db, treble_db)]

\* GuitarFxProcessor::update_cabinet (no transform fails)
PipelineUpdateCabinet(p, cabinet_type, m) ==
    LET c == p.cabinet_simulator
        r == UpdateCabinet(c.eng, c.cur, cabinet_type, 0)
    IN  [p EXCEPT !.cabinet_simulator = [eng |-> r.eng, cur |-> r.cur, mix |-> SetMix(m)]]

\* GuitarFxProcessor::get_latency
PipelineGetLatency(p) ==
    ProcessorGetLatency(p.cabinet_simulator.eng, p.cabinet_simulator.cur)

\* GuitarFxProcessor::process_sample: the processor after the call and the
\* value returned
PipelineProcessSample(p, input, input_gain, drive, output_gain) ==
    LET c  == p.cabinet_simulator
        x1 == (input * (CoefOne \div One) * input_gain) \div One
    IN  The({ The({ The({ The({
            [proc |-> [p EXCEPT !.tube_stage = x2.stage,
                                !.tonestack = x3.stack,
                                !.cabinet_simulator =
                                    [eng |-> x5.eng, cur |-> c.cur, mix |-> c.mix]],
             out  |-> FMul(x5.out, output_gain)]
            : x5 \in {CabProcessSample(c.eng, c.cur, c.mix,
                                       x4.out \div (CoefOne \div One), "ok")} })
            : x4 \in {AsymmetricClipperProcess(Clipper, x3.out, drive)} })
            : x3 \in {StackProcess(p.tonestack, x2.out)} })
            : x2 \in {TubeProcess(p.tube_stage, x1, drive)} })

---------------------------------------------------------------------------
\* The impulse-response loader (src/src/dsp/ir_loader.rs).  A file is
\* described by what load_ir_file reads of it: whether it exists and can be
\* read, its length in bytes, whether it carries the RIFF and WAVE
\* signatures, the bit depth and the channel count of its header, and the
\* position and the size field of its data chunk, if the search finds one.
\* The impulse responses are described by their lengths.

\* the length the samples are truncated to
LoaderMaxSamples == 192000

\* the length of the fallback impulse response
FallbackLen == 512

\* the header the basic parsing expects before the data
WavHeaderLen == 44

\* ir_files of load_cabinet_irs: the file name of each named cabinet
IrFileNames ==
    [ Marshall4x12V30 |-> "marshall_4x12_v30.wav",
      FenderTwin2x12  |-> "fender_twin_2x12.wav",
      VoxAC30Blue     |-> "vox_ac30_blue.wav",
      Mesa4x12Recto   |-> "mesa_4x12_recto.wav" ]

\* the cabinets of ir_files, in its order
IrFileOrder == <<"Marshall4x12V30", "FenderTwin2x12", "VoxAC30Blue", "Mesa4x12Recto">>

\* a well-formed file of one data chunk after a 44-byte header
WavFile(bit_depth, channels, data_size) ==
    [ exists |-> TRUE, readable |-> TRUE, len |-> WavHeaderLen + data_size,
      signature |-> TRUE, bit_depth |-> bit_depth, channels |-> channels,
      data_found |-> TRUE, data_start |-> WavHeaderLen, data_size |-> data_size ]

\* no file of that name
MissingFile == [WavFile(16, 1, 2) EXCEPT !.exists = FALSE]

\* load_ir_file: the result, and the number of samples of an Ok result.
\* "panic" is the panic of chunks_exact on a chunk size of 0.
LoadIrFile(file) ==
    IF ~file.exists THEN [result |-> "FileNotFound", len |-> 0]
    ELSE IF ~file.readable THEN [result |-> "ReadError", len |-> 0]
    ELSE IF file.len < WavHeaderLen THEN [result |-> "InvalidFormat", len |-> 0]
    ELSE IF ~file.signature THEN [result |-> "InvalidFormat", len |-> 0]
    ELSE LET data_start == IF file.data_found THEN file.data_start ELSE WavHeaderLen
             data_size  == IF file.data_found THEN file.data_size ELSE 0
         IN  IF data_size = 0 \/ data_start + data_size > file.len
             THEN [result |-> "InvalidFormat", len |-> 0]
             ELSE IF file.bit_depth \notin {16, 24, 32}
             THEN [result |-> "UnsupportedFormat", len |-> 0]
             ELSE LET bytes_per_sample == (file.bit_depth \div 8) * file.channels
                  IN  IF bytes_per_sample = 0
                      THEN [result |-> "panic", len |-> 0]
                      ELSE [result |-> "Ok",
                            len |-> Min(data_size \div bytes_per_sample, LoaderMaxSamples)]

\* create_fallback_ir: vec![0.0; 512], filled in place
CreateFallbackIr(cabinet_type) == [len |-> FallbackLen]

RECURSIVE LoadCabinetIrsFrom(_, _)
\* The loop of load_cabinet_irs from entry k of ir_files on: the entries
\* pushed, and whether a load panicked
LoadCabinetIrsFrom(directory, k) ==
    IF k > Len(IrFileOrder) THEN [irs |-> <<>>, panicked |-> FALSE]
    ELSE LET cabinet_type == IrFileOrder[k]
             r == LoadIrFile(directory[cabinet_type])
             rest == LoadCabinetIrsFrom(directory, k + 1)
         IN  IF r.result = "panic" THEN [irs |-> <<>>, panicked |-> TRUE]
             ELSE IF r.result = "Ok"
             THEN [irs |-> <<[cabinet_type |-> cabinet_type, len |-> r.len,
                              source |-> "file"]>> \o rest.irs,
                   panicked |-> rest.panicked]
             ELSE [irs |-> <<[cabinet_type |-> cabinet_type,
                              len |-> CreateFallbackIr(cabinet_type).len,
                              source |-> "fallback"]>> \o rest.irs,
                   panicked |-> rest.panicked]

\* IrLoader::load_cabinet_irs
LoadCabinetIrs(directory) ==
    LET r == LoadCabinetIrsFrom(directory, 1)
    IN  [called |-> TRUE, panicked |-> r.panicked,
         irs |-> IF r.panicked THEN <<>> ELSE r.irs]

\* loader_irs before any load_cabinet_irs call
NotLoaded == [called |-> FALSE, panicked |-> FALSE, irs |-> <<>>]

---------------------------------------------------------------------------
\* The plugin (src/src/lib.rs): GuitarFx::initialize and GuitarFx::process

\* GuitarFx::initialize: the processor after the call and the latency
\* reported with context.set_latency_samples
GuitarFxInitialize(p, sample_rate) ==
    LET q == PipelineInitialize(p, sample_rate)
    IN  [proc |-> q, latency_samples |-> PipelineGetLatency(q)]

\* The body of the loop of GuitarFx::process for one sample frame
\* (channel_samples): the parameters are read, the tone controls and the
\* cabinet are updated, and every sample of the frame goes through the one
\* processor, in channel order.  params gives the values the smoothers and
\* cabinet_type.value() return.
RECURSIVE ProcessChannels(_, _, _, _)
ProcessChannels(p, params, channel_samples, ch) ==
    IF ch > Len(channel_samples)
    THEN [proc |-> p, out |-> <<>>]
    ELSE The({ The({
             [proc |-> rest.proc, out |-> <<r.out>> \o rest.out]
             : rest \in {ProcessChannels(r.proc, params, channel_samples, ch + 1)} })
             : r \in {PipelineProcessSample(p, channel_samples[ch], params.input_gain,
                                            params.drive, params.output_gain)} })

GuitarFxProcessFrame(p, params, channel_samples) ==
    The({ The({
        ProcessChannels(p2, params, channel_samples, 1)
        : p2 \in {PipelineUpdateCabinet(p1, params.cabinet_type, params.cabinet_mix)} })
        : p1 \in {PipelineUpdateToneControls(p, params.bass, params.mid, params.treble)} })

\* GuitarFx::process: the processor after the call and the buffer after
\* it, frame by frame.  No latency is reported.
RECURSIVE GuitarFxProcess(_, _, _, _)
GuitarFxProcess(p, params, buffer, k) ==
    IF k > Len(buffer)
    THEN [proc |-> p, out |-> <<>>]
    ELSE The({ The({
             [proc |-> rest.proc, out |-> <<r.out>> \o rest.out]
             : rest \in {GuitarFxProcess(r.proc, params, buffer, k + 1)} })
             : r \in {GuitarFxProcessFrame(p, params, buffer[k])} })

---------------------------------------------------------------------------
\* Engine-level driver (SpecConv): a PartitionedConvolution used on its own,
\* as the unit tests of convolution.rs use it.  The cabinet variables keep
\* the values CabinetSimulator::new gives them and are not used.

\* the variables only the engine-level driver changes
convObs == <<in_hist, out_hist, block_runs, loaded_ir, last_len, stream_start>>

\* the variables only the cabinet-level drivers change
cabObs == <<current_cabinet, mix, prev_cabinet, last_arg, last_mix_arg, load_calls>>

\* the variables only the processor-level driver changes
procObs == <<processor, proc_call>>

\* the variables only the filter-level driver changes
filterObs == <<filter, tone_stack, filter_samples, filter_fresh, filter_run>>

\* the variables only the clipper-level driver changes
clipObs == <<clipper_call>>

\* clipper_call before any process call
NoClip == [input |-> 0, drive |-> One, out |-> 0, driven_input |-> 0, table_index |-> 0,
           frac |-> 0, reads |-> <<>>, panicked |-> FALSE]

\* the variables only the plugin-level driver changes
pluginObs == <<plugin_processor, twin_processor, param_cabinet_index, host_latency,
               plugin_initialized, plugin_frames, plugin_call>>

\* plugin_call before any process call
NoBuffer == [buffer |-> <<>>, twin_buffer |-> <<>>, out |-> <<>>, twin_out |-> <<>>]

\* the variables only the drivers of the single stages and of the plugin
\* change
\* the variables only the loader-level driver changes
loaderObs == <<ir_directory, loader_irs, loader_writes>>

extObs == <<filterObs, clipObs, pluginObs, loaderObs>>

\* proc_call before any process_sample call
NoCall == [input |-> 0, input_gain |-> One, drive |-> One, output_gain |-> One,
           log |-> <<>>, out |-> 0]

\* the single stages after construction: BiquadFilter::new() and
\* ToneStack::new(44100.0), no sample processed; and the plugin after
\* GuitarFx::default(), both runs
InitExt ==
    /\ filter = BiquadFilterNew
    /\ tone_stack = StackNew(DefaultSampleRate)
    /\ filter_samples = 0
    /\ filter_fresh = TRUE
    /\ filter_run = "none"
    /\ clipper_call = NoClip
    /\ plugin_processor = PipelineNew(ModelBlockSize)
    /\ twin_processor = PipelineNew(ModelBlockSize)
    /\ param_cabinet_index = ToIndex("Marshall4x12V30")
    /\ host_latency = 0
    /\ plugin_initialized = FALSE
    /\ plugin_frames = 0
    /\ plugin_call = NoBuffer
    /\ ir_directory = [c \in DOMAIN IrFileNames |-> MissingFile]
    /\ loader_irs = NotLoaded
    /\ loader_writes = 0

\* block sizes PartitionedConvolution::new is called with: those of the
\* model, and 0 and 3, on which the assert of new panics
NewSizes == BlockSizes \cup {0, 3}

\* PartitionedConvolution::new(bs)
InitConv ==
    /\ \E bs \in NewSizes :
          /\ IsPowerOfTwo(bs)
          /\ convolution_engine = ConvNew(bs)
          /\ new_block_size = bs
    /\ current_cabinet = "Marshall4x12V30"
    /\ prev_cabinet = "Marshall4x12V30"
    /\ mix = One
    /\ last_op = "new"
    /\ last_arg = "none"
    /\ last_mix_arg = One
    /\ last_len = 0
    /\ last_result = "Ok"
    /\ last_input = 0
    /\ last_output = 0
    /\ last_wet = 0
    /\ dirty_before = FALSE
    /\ silent = TRUE
    /\ in_hist = <<>>
    /\ out_hist = <<>>
    /\ block_runs = <<>>
    /\ loaded_ir = <<>>
    /\ stream_start = "new"
    /\ load_calls = 0
    /\ processor = ProcessorNew
    /\ proc_call = NoCall
    /\ InitExt

\* conv.load_impulse_response(&ir)
ConvLoad(ir) ==
    /\ \E r \in {LoadImpulseResponse(convolution_engine, ir, 0)} :
          /\ convolution_engine' = r.eng
          /\ last_result' = r.result
          /\ IF r.result = "Ok"
             THEN /\ in_hist' = <<>>
                  /\ out_hist' = <<>>
                  /\ block_runs' = <<>>
                  /\ loaded_ir' = ir
                  /\ stream_start' = "load"
                  /\ silent' = TRUE
                  /\ dirty_before' = Dirty(convolution_engine)
             ELSE /\ UNCHANGED <<in_hist, out_hist, block_runs, loaded_ir, silent,
                                 stream_start>>
                  /\ dirty_before' = FALSE
    /\ last_op' = "load_impulse_response"
    /\ last_len' = Len(ir)
    /\ last_input' = 0
    /\ last_output' = 0
    /\ last_wet' = 0
    /\ UNCHANGED <<cabObs, procObs, extObs, new_block_size>>

\* conv.process_sample(x)
ConvProcess(x) ==
    /\ Len(in_hist) < MaxSamples
    /\ Len(convolution_engine.ir_partitions) <= MaxPartitions
    /\ \E r \in {ConvProcessSample(convolution_engine, x, "ok")} :
          /\ convolution_engine' = r.eng
          /\ last_output' = r.out
          /\ last_wet' = r.out
          /\ out_hist' = Append(out_hist, r.out)
    /\ in_hist' = Append(in_hist, x)
    /\ block_runs' = IF RunsBlock(convolution_engine)
                     THEN Append(block_runs, Len(in_hist) + 1)
                     ELSE block_runs
    /\ silent' = (silent /\ x = 0)
    /\ last_input' = x
    /\ last_op' = "process_sample"
    /\ last_result' = "Ok"
    /\ dirty_before' = FALSE
    /\ UNCHANGED <<cabObs, procObs, extObs, new_block_size, loaded_ir, last_len, stream_start>>

\* conv.reset()
ConvResetOp ==
    /\ convolution_engine' = ConvReset(convolution_engine)
    /\ last_op' = "reset"
    /\ in_hist' = <<>>
    /\ out_hist' = <<>>
    /\ block_runs' = <<>>
    /\ silent' = TRUE
    /\ dirty_before' = Dirty(convolution_engine)
    /\ last_input' = 0
    /\ last_output' = 0
    /\ last_wet' = 0
    /\ last_result' = "Ok"
    /\ stream_start' = (IF Dirty(convolution_engine) THEN "reset_dirty" ELSE "reset")
    /\ UNCHANGED <<cabObs, procObs, extObs, new_block_size, loaded_ir, last_len>>

\* conv.load_impulse_response(&vec![1.0; n]) on a new engine, for the lengths
\* around the limit (test_impulse_validation loads vec![1.0; 100000])
ConvLoadLong(n) ==
    /\ last_op = "new"
    /\ ConvLoad(Fix([i \in 1..n |-> One]))

\* an impulse response of one sample more than the limit
TooLongIr == Fix([i \in 1..(MaxIrLen + 1) |-> One])

\* conv.load_impulse_response(&vec![1.0; 96001]) on an engine in any state
ConvLoadTooLong == ConvLoad(TooLongIr)

NextConv ==
    \/ \E n \in 0..MaxIrTaps : ConvLoad(TestIr(n))
    \/ \E n \in LongLens : ConvLoadLong(n)
    \/ ConvLoadTooLong
    \/ \E x \in Samples : ConvProcess(x)
    \/ ConvResetOp

SpecConv == InitConv /\ [][NextConv]_vars

---------------------------------------------------------------------------
\* Cabinet-level driver (Spec): a CabinetSimulator, called directly and
\* through GuitarFxProcessor::update_cabinet.  No transform fails.  The
\* histories of the engine-level driver are not kept.

\* CabinetSimulator::new(bs, sample_rate) for a block size of sizes
InitWith(sizes) ==
    /\ \E bs \in sizes :
          /\ IsPowerOfTwo(bs)
          /\ \E c \in {CabinetNew(bs)} :
                /\ convolution_engine = c.eng
                /\ current_cabinet = c.cur
                /\ mix = c.mix
          /\ new_block_size = bs
    /\ prev_cabinet = "Marshall4x12V30"
    /\ last_op = "new"
    /\ last_arg = "none"
    /\ last_mix_arg = One
    /\ last_len = 0
    /\ last_result = "Ok"
    /\ last_input = 0
    /\ last_output = 0
    /\ last_wet = 0
    /\ dirty_before = FALSE
    /\ silent = TRUE
    /\ in_hist = <<>>
    /\ out_hist = <<>>
    /\ block_runs = <<>>
    /\ loaded_ir = <<>>
    /\ stream_start = "new"
    /\ load_calls = 0
    /\ processor = ProcessorNew
    /\ proc_call = NoCall
    /\ InitExt

Init == InitWith(BlockSizes)

\* The observations after a load_cabinet / update_cabinet whose outcome is r
\* (reloaded: load_cabinet was called)
LoadObserved(r, cabinet_type, reloaded) ==
    /\ convolution_engine' = r.eng
    /\ current_cabinet' = r.cur
    /\ prev_cabinet' = current_cabinet
    /\ last_arg' = cabinet_type
    /\ last_result' = r.result
    /\ last_input' = 0
    /\ last_output' = 0
    /\ last_wet' = 0
    /\ dirty_before' = (reloaded /\ r.result = "Ok" /\ Dirty(convolution_engine))
    /\ silent' = IF reloaded /\ r.result = "Ok" THEN TRUE ELSE silent
    /\ load_calls' = (IF reloaded THEN 1 ELSE 0)
    /\ UNCHANGED <<convObs, procObs, extObs, new_block_size>>

\* cabinet.load_cabinet(cabinet_type)
CabLoadCabinet(cabinet_type, fail_at) ==
    /\ \E r \in {LoadCabinet(convolution_engine, current_cabinet, cabinet_type, fail_at)} :
          LoadObserved(r, cabinet_type, TRUE)
    /\ last_op' = "load_cabinet"
    /\ last_mix_arg' = One
    /\ UNCHANGED mix

\* cabinet.process_sample(x)
CabProcess(x, fft) ==
    /\ \E r \in {CabProcessSample(convolution_engine, current_cabinet, mix, x, fft)} :
          /\ convolution_engine' = r.eng
          /\ last_output' = r.out
          /\ last_wet' = r.wet
    /\ silent' = IF current_cabinet = "Direct" THEN silent ELSE (silent /\ x = 0)
    /\ last_input' = x
    /\ last_op' = "process_sample"
    /\ last_result' = "Ok"
    /\ prev_cabinet' = current_cabinet
    /\ last_arg' = "none"
    /\ last_mix_arg' = One
    /\ dirty_before' = FALSE
    /\ load_calls' = 0
    /\ UNCHANGED <<current_cabinet, mix, convObs, procObs, extObs, new_block_size>>

\* cabinet.set_mix(m)
CabSetMix(m) ==
    /\ mix' = SetMix(m)
    /\ last_mix_arg' = m
    /\ last_op' = "set_mix"
    /\ last_result' = "Ok"
    /\ last_input' = 0
    /\ last_output' = 0
    /\ last_wet' = 0
    /\ prev_cabinet' = current_cabinet
    /\ last_arg' = "none"
    /\ dirty_before' = FALSE
    /\ load_calls' = 0
    /\ UNCHANGED <<convolution_engine, current_cabinet, silent, convObs, procObs, extObs, new_block_size>>

\* cabinet.reset()
CabResetOp ==
    /\ convolution_engine' = ConvReset(convolution_engine)
    /\ last_op' = "reset"
    /\ last_result' = "Ok"
    /\ last_input' = 0
    /\ last_output' = 0
    /\ last_wet' = 0
    /\ prev_cabinet' = current_cabinet
    /\ last_arg' = "none"
    /\ last_mix_arg' = One
    /\ silent' = TRUE
    /\ dirty_before' = Dirty(convolution_engine)
    /\ load_calls' = 0
    /\ UNCHANGED <<current_cabinet, mix, convObs, procObs, extObs, new_block_size>>

\* processor.update_cabinet(cabinet_type, m)
ProcUpdateCabinet(cabinet_type, m, fail_at) ==
    /\ \E r \in {UpdateCabinet(convolution_engine, current_cabinet, cabinet_type, fail_at)} :
          LoadObserved(r, cabinet_type, r.reloaded)
    /\ mix' = SetMix(m)
    /\ last_mix_arg' = m
    /\ last_op' = "update_cabinet"

Next ==
    \/ \E c \in CabinetTypes : CabLoadCabinet(c, 0)
    \/ \E x \in Samples : CabProcess(x, "ok")
    \/ \E m \in MixInputs : CabSetMix(m)
    \/ CabResetOp
    \/ \E c \in CabinetTypes, m \in MixInputs : ProcUpdateCabinet(c, m, 0)

Spec == Init /\ [][Next]_vars

---------------------------------------------------------------------------
\* Cabinet-level driver with failing transforms (SpecFault): Spec, and in
\* addition a transform of realfft may return an error wherever the code
\* handles one: in load_impulse_response (the transform of chunk fail_at),
\* and in process_block (the forward or the inverse transform).

\* the chunks whose transform is made to fail
FailAts == {1, 2}

\* the transform of process_block that is made to fail
FftFaults == {"fwd_err", "inv_err"}

\* block sizes of the simulator with failing transforms
FaultBlockSizes == {1, 2}

InitFault == InitWith(FaultBlockSizes)

NextFault ==
    \/ Next
    \/ \E c \in CabinetTypes, f \in FailAts : CabLoadCabinet(c, f)
    \/ \E c \in CabinetTypes, m \in MixInputs, f \in FailAts : ProcUpdateCabinet(c, m, f)
    \/ \E x \in Samples, fft \in FftFaults : CabProcess(x, fft)

SpecFault == InitFault /\ [][NextFault]_vars

---------------------------------------------------------------------------
\* Processor-level driver (SpecProc): a GuitarFxProcessor and its
\* per-sample pipeline.  The variables of the cabinet-level and the
\* engine-level drivers keep the values of a simulator of the smallest
\* block size and are not used.

\* most samples the processor-level driver feeds
MaxProcSamples == 2

\* most calls (update_controls and process) made on one tone stack
MaxToneCalls == 3

\* input_gain given to process_sample: 2.0
InputGains == {2 * One}

\* output_gain given to process_sample: 0.5
OutputGains == {One \div 2}

\* drive given to process_sample: 1.0 and 3.0
Drives == {One, 3 * One}

\* bass/mid/treble settings given to update_tone_controls, in dB
ToneSettings == {<<0, 0, 0>>, <<6, 0, -6>>}

\* sample rates given to initialize
SampleRates == {44100, 48000}

\* the variables the processor-level driver leaves alone
belowProc == <<convolution_engine, new_block_size, cabObs, convObs, extObs, last_len,
               last_result, last_input, last_output, last_wet, dirty_before, silent>>

InitProc == InitWith({1})

\* processor.process_sample(input, input_gain, drive, output_gain)
ProcProcessSample(input, input_gain, drive, output_gain) ==
    /\ Len(processor.tube_stage.calls) < MaxProcSamples
    /\ Len(processor.tonestack.calls) < MaxToneCalls
    /\ \E r \in {ProcessorProcessSample(processor, input, input_gain, drive, output_gain)} :
          /\ processor' = r.proc
          /\ proc_call' = [input |-> input, input_gain |-> input_gain, drive |-> drive,
                           output_gain |-> output_gain, log |-> r.log, out |-> r.out]
    /\ last_op' = "processor.process_sample"
    /\ UNCHANGED belowProc

\* processor.update_tone_controls(bass_db, mid_db, treble_db)
ProcUpdateToneControls(t) ==
    /\ Len(processor.tonestack.calls) < MaxToneCalls
    /\ processor' = ProcessorUpdateToneControls(processor, t[1], t[2], t[3])
    /\ last_op' = "processor.update_tone_controls"
    /\ UNCHANGED <<belowProc, proc_call>>

\* processor.initialize(sample_rate)
ProcInitialize(sample_rate) ==
    /\ processor' = ProcessorInitialize(processor, sample_rate)
    /\ last_op' = "processor.initialize"
    /\ UNCHANGED <<belowProc, proc_call>>

NextProc ==
    \/ \E input \in Samples, input_gain \in InputGains, drive \in Drives,
          output_gain \in OutputGains :
          ProcProcessSample(input, input_gain, drive, output_gain)
    \/ \E t \in ToneSettings : ProcUpdateToneControls(t)
    \/ \E sample_rate \in SampleRates : ProcInitialize(sample_rate)

SpecProc == InitProc /\ [][NextProc]_vars

---------------------------------------------------------------------------
\* Mix-control driver (SpecMix): the program of src/test_ir_loading.rs.  A
\* CabinetSimulator is switched between the cabinets, its mix is set fully
\* dry or fully wet, and every sample it is given is 0.5.  A product of 0.5
\* and a catalog tap need not be a multiple of 0.01: the fixed-point
\* products of this driver are rounded down to 0.01, where f32 rounds to
\* 24 bits.

\* test_input of test_ir_loading.rs
Half == One \div 2

\* the mix values test_ir_loading.rs sets: 0.0 (dry) and 1.0 (wet)
TestMixes == {0, One}

NextMix ==
    \/ \E c \in CabinetTypes : CabLoadCabinet(c, 0)
    \/ CabProcess(Half, "ok")
    \/ \E m \in TestMixes : CabSetMix(m)

SpecMix == Init /\ [][NextMix]_vars

---------------------------------------------------------------------------
\* Filter-level driver (SpecFilter): one BiquadFilter and one ToneStack,
\* each used on its own: a run works either on the filter or on the tone
\* stack, and the one it does not work on stays as constructed.  The other
\* variables keep the values CabinetSimulator::new(1, ...) gives them and
\* are not used.

\* most process calls made on the filter and the tone stack together
MaxFilterSamples == 3

\* samples given to the filters: -1.0, 0.0, 1.0
FilterInputs == {-One, 0, One}

\* coefficients b0, b1, b2, a1, a2 given to set_coefficients (whole numbers)
CoefChoices == {<<2 * CoefOne, CoefOne, -CoefOne, CoefOne, CoefOne>>,
                <<CoefOne, -2 * CoefOne, CoefOne, 0, -CoefOne>>}

\* freq, gain_db and q given to peaking_eq: the bass band raised by 6 dB
\* and the treble band lowered by 6 dB
PeakChoices == {<<100, 6, (7 * CoefOne) \div 10>>, <<3000, -6, (7 * CoefOne) \div 10>>}

\* the variables the drivers of the single stages leave alone
coreObs == <<convolution_engine, new_block_size, cabObs, convObs, procObs, last_len,
             last_result, last_wet, dirty_before, silent>>

\* the variables the filter-level driver leaves alone
belowFilter == <<coreObs, clipObs, pluginObs, loaderObs>>

InitFilter == InitWith({1})

\* ToneStack::new(44100.0)
DefaultStack == StackNew(DefaultSampleRate)

\* the run works on the filter
OnFilter == filter_run \in {"none", "filter"} /\ filter_run' = "filter"

\* the run works on the tone stack
OnStack == filter_run \in {"none", "tone_stack"} /\ filter_run' = "tone_stack"

\* the observations of an operation on a filter that is not process
FilterConfigured(op) ==
    /\ last_op' = op
    /\ last_input' = 0
    /\ last_output' = 0
    /\ UNCHANGED <<belowFilter, filter_samples>>

\* filter = BiquadFilter::new()
FilterNew ==
    /\ OnFilter
    /\ filter' = BiquadFilterNew
    /\ filter_fresh' = TRUE
    /\ FilterConfigured("filter.new")
    /\ UNCHANGED tone_stack

\* filter.process(x)
FilterProcess(x) ==
    /\ OnFilter
    /\ filter_samples < MaxFilterSamples
    /\ \E r \in {BiquadProcess(filter, x)} :
          /\ filter' = r.filter
          /\ last_output' = r.out
    /\ last_input' = x
    /\ last_op' = "filter.process"
    /\ filter_samples' = filter_samples + 1
    /\ UNCHANGED <<belowFilter, tone_stack, filter_fresh>>

\* filter.reset()
FilterReset ==
    /\ OnFilter
    /\ filter' = BiquadReset(filter)
    /\ FilterConfigured("filter.reset")
    /\ UNCHANGED <<tone_stack, filter_fresh>>

\* filter.set_coefficients(b0, b1, b2, a1, a2)
FilterSetCoefficients(c) ==
    /\ OnFilter
    /\ filter' = SetCoefficients(filter, c[1], c[2], c[3], c[4], c[5])
    /\ filter_fresh' = FALSE
    /\ FilterConfigured("filter.set_coefficients")
    /\ UNCHANGED tone_stack

\* filter.peaking_eq(freq, gain_db, q, sample_rate)
FilterPeakingEq(c, sample_rate) ==
    /\ OnFilter
    /\ filter' = PeakingEq(filter, c[1], c[2], c[3], sample_rate)
    /\ filter_fresh' = FALSE
    /\ FilterConfigured("filter.peaking_eq")
    /\ UNCHANGED tone_stack

\* filter.low_pass(8000.0, 0.707, sample_rate), as TubeStage configures
\* its high-frequency rolloff
FilterLowPass(sample_rate) ==
    /\ OnFilter
    /\ filter' = LowPass(filter, 8000, (707 * CoefOne) \div 1000, sample_rate)
    /\ filter_fresh' = FALSE
    /\ FilterConfigured("filter.low_pass")
    /\ UNCHANGED tone_stack

\* filter.high_pass(20.0, 0.707, sample_rate), as TubeStage configures its
\* DC blocker
FilterHighPass(sample_rate) ==
    /\ OnFilter
    /\ filter' = HighPass(filter, 20, (707 * CoefOne) \div 1000, sample_rate)
    /\ filter_fresh' = FALSE
    /\ FilterConfigured("filter.high_pass")
    /\ UNCHANGED tone_stack

\* tone_stack.update_controls(bass_db, mid_db, treble_db)
ToneUpdateControls(t) ==
    /\ OnStack
    /\ tone_stack' = StackUpdateControls(tone_stack, t[1], t[2], t[3])
    /\ FilterConfigured("tone_stack.update_controls")
    /\ UNCHANGED <<filter, filter_fresh>>

\* tone_stack.process(x)
ToneProcess(x) ==
    /\ OnStack
    /\ filter_samples < MaxFilterSamples
    /\ \E r \in {StackProcess(tone_stack, x)} :
          /\ tone_stack' = r.stack
          /\ last_output' = r.out
    /\ last_input' = x
    /\ last_op' = "tone_stack.process"
    /\ filter_samples' = filter_samples + 1
    /\ UNCHANGED <<belowFilter, filter, filter_fresh>>

NextFilter ==
    \/ FilterNew
    \/ \E x \in FilterInputs : FilterProcess(x)
    \/ FilterReset
    \/ \E c \in CoefChoices : FilterSetCoefficients(c)
    \/ \E c \in PeakChoices : FilterPeakingEq(c, DefaultSampleRate)
    \/ FilterLowPass(DefaultSampleRate)
    \/ FilterHighPass(DefaultSampleRate)
    \/ \E t \in ToneSettings : ToneUpdateControls(t)
    \/ \E x \in FilterInputs : ToneProcess(x)

SpecFilter == InitFilter /\ [][NextFilter]_vars

---------------------------------------------------------------------------
\* Clipper-level driver (SpecClip): one AsymmetricClipper, given samples
\* and drives on its own.  process takes &self: the clipper never changes.

\* the samples given go from -MaxClipEighths/8 to +MaxClipEighths/8
MaxClipEighths == 40

\* samples given to the clipper: every eighth from -5.0 to 5.0, and three
\* values whose table position is just below 1023, at 1023 and just below
\* 1024
ClipInputs == {(k * CoefOne) \div 8 : k \in (-MaxClipEighths)..MaxClipEighths}
              \cup {39921, 39922, 39999}

\* drives given to the clipper: 0.5, 1.0 and 3.0
ClipDrives == {One \div 2, One, 3 * One}

\* the variables the clipper-level driver leaves alone
belowClip == <<coreObs, filterObs, pluginObs, loaderObs>>

InitClip == InitWith({1})

\* clipper.process(input, drive)
ClipProcess(input, drive) ==
    /\ \E r \in {AsymmetricClipperProcess(Clipper, input, drive)} :
          clipper_call' = [input |-> input, drive |-> drive, out |-> r.out,
                           driven_input |-> r.driven_input, table_index |-> r.table_index,
                           frac |-> r.frac, reads |-> r.reads, panicked |-> r.panicked]
    /\ last_op' = "clipper.process"
    /\ last_input' = 0
    /\ last_output' = 0
    /\ UNCHANGED belowClip

NextClip == \E input \in ClipInputs, drive \in ClipDrives : ClipProcess(input, drive)

SpecClip == InitClip /\ [][NextClip]_vars

---------------------------------------------------------------------------
\* Plugin-level driver (SpecPlugin): the host initializes the plugin, sets
\* the cabinet parameter and calls process with stereo buffers.  The other
\* parameters stay at their defaults, so their smoothers return the
\* defaults.  A second run of the plugin (twin_processor) is given the same
\* calls, with the same samples on the first channel and samples of its own
\* on the second.

\* most sample frames processed in a run
MaxFrames == 2

\* the largest index the host stores in the cabinet parameter
MaxCabinetIndex == 5

\* the sample rate the host runs the plugin at
PluginSampleRates == {48000}

\* one sample frame of both runs: the sample of the first channel, the
\* sample of the second channel (silence in the first run), and the sample
\* of the second channel in the second run
TwinFrames == {<<ch0, 0, twin_ch1>> : ch0 \in Samples, twin_ch1 \in Samples}

\* the buffers of both runs: one sample frame, or the same frame twice
TwinBuffers == {<<f>> : f \in TwinFrames} \cup {<<f, f>> : f \in TwinFrames}

\* the values the parameters have at a sample frame: the defaults of
\* GuitarFxParams, and the cabinet of the index the host has set
ParamsAt(cabinet_index) ==
    [ input_gain |-> One, output_gain |-> One, drive |-> One,
      bass |-> 0, mid |-> 0, treble |-> 0,
      cabinet_type |-> FromIndex(cabinet_index), cabinet_mix |-> One ]

\* the variables the plugin-level driver leaves alone
belowPlugin == <<coreObs, filterObs, clipObs, loaderObs, last_input, last_output>>

InitPlugin == InitWith({1})

\* GuitarFx::initialize with buffer_config.sample_rate = sample_rate; the
\* host activates the plugin once, before it streams audio
PluginInitialize(sample_rate) ==
    /\ ~plugin_initialized
    /\ \E r \in {GuitarFxInitialize(plugin_processor, sample_rate)} :
          /\ plugin_processor' = r.proc
          /\ host_latency' = r.latency_samples
    /\ twin_processor' = GuitarFxInitialize(twin_processor, sample_rate).proc
    /\ plugin_initialized' = TRUE
    /\ plugin_call' = NoBuffer
    /\ last_op' = "plugin.initialize"
    /\ UNCHANGED <<belowPlugin, param_cabinet_index, plugin_frames>>

\* the host sets the cabinet parameter to index
HostSetCabinet(index) ==
    /\ param_cabinet_index' = index
    /\ plugin_call' = NoBuffer
    /\ last_op' = "host.set_cabinet"
    /\ UNCHANGED <<belowPlugin, plugin_processor, twin_processor, host_latency,
                   plugin_initialized, plugin_frames>>

\* GuitarFx::process on a buffer of both runs
PluginProcess(b) ==
    /\ plugin_initialized
    /\ plugin_frames + Len(b) <= MaxFrames
    /\ LET buffer == [k \in 1..Len(b) |-> <<b[k][1], b[k][2]>>]
           twin_buffer == [k \in 1..Len(b) |-> <<b[k][1], b[k][3]>>]
           params == ParamsAt(param_cabinet_index)
       IN  \E r \in {GuitarFxProcess(plugin_processor, params, buffer, 1)},
              t \in {GuitarFxProcess(twin_processor, params, twin_buffer, 1)} :
              /\ plugin_processor' = r.proc
              /\ twin_processor' = t.proc
              /\ plugin_call' = [buffer |-> buffer, twin_buffer |-> twin_buffer,
                                 out |-> r.out, twin_out |-> t.out]
    /\ plugin_frames' = plugin_frames + Len(b)
    /\ last_op' = "plugin.process"
    /\ UNCHANGED <<belowPlugin, param_cabinet_index, host_latency, plugin_initialized>>

NextPlugin ==
    \/ \E sample_rate \in PluginSampleRates : PluginInitialize(sample_rate)
    \/ \E index \in 0..MaxCabinetIndex : HostSetCabinet(index)
    \/ \E b \in TwinBuffers : PluginProcess(b)

SpecPlugin == InitPlugin /\ [][NextPlugin]_vars

---------------------------------------------------------------------------
\* Loader-level driver (SpecLoader): files are written into the directory
\* and IrLoader::load_cabinet_irs is called on it.

\* most files written in a run
MaxFileWrites == 1

\* the sizes of the data chunks written: less than one sample, one sample,
\* and, in 16-bit mono samples, the limit of load_impulse_response, one
\* more, the 100,000 of test_impulse_validation, and one more than the
\* loader keeps
DataSizes == {1, 2, 2 * MaxIrLen, 2 * (MaxIrLen + 1), 2 * 100000,
              2 * (LoaderMaxSamples + 1)}

\* the files written: well-formed ones, and one for each way load_ir_file
\* turns a file away
LoaderFiles ==
    {WavFile(16, 1, n) : n \in DataSizes}
        \cup {WavFile(b, c, 24) : b \in {8, 16, 24, 32}, c \in {0, 1, 2}}
        \cup { MissingFile,
               [WavFile(16, 1, 2) EXCEPT !.readable = FALSE],
               [WavFile(16, 1, 2) EXCEPT !.len = WavHeaderLen - 1],
               [WavFile(16, 1, 2) EXCEPT !.signature = FALSE],
               [WavFile(16, 1, 2) EXCEPT !.data_found = FALSE],
               [WavFile(16, 1, 2) EXCEPT !.data_size = 0],
               [WavFile(16, 1, 2) EXCEPT !.data_size = 4] }

\* the variables the loader-level driver leaves alone
belowLoader == <<coreObs, filterObs, clipObs, pluginObs, last_input, last_output>>

InitLoader == InitWith({1})

\* a file is written under the name of a cabinet
LoaderWriteFile(cabinet_type, file) ==
    /\ loader_writes < MaxFileWrites
    /\ ir_directory' = [ir_directory EXCEPT ![cabinet_type] = file]
    /\ loader_writes' = loader_writes + 1
    /\ loader_irs' = NotLoaded
    /\ last_op' = "loader.write_file"
    /\ UNCHANGED belowLoader

\* IrLoader::load_cabinet_irs(ir_directory)
LoaderLoadCabinetIrs ==
    /\ loader_irs' = LoadCabinetIrs(ir_directory)
    /\ last_op' = "loader.load_cabinet_irs"
    /\ UNCHANGED <<belowLoader, ir_directory, loader_writes>>

NextLoader ==
    \/ \E cabinet_type \in DOMAIN IrFileNames, file \in LoaderFiles :
          LoaderWriteFile(cabinet_type, file)
    \/ LoaderLoadCabinetIrs

SpecLoader == InitLoader /\ [][NextLoader]_vars

---------------------------------------------------------------------------
\* Properties of the convolution engine (checked under SpecConv)

\* The input of the unit-impulse scenario: 1.0, then zeros
IsImpulse(s) == Len(s) >= 1 /\ s[1] = One /\ \A i \in 2..Len(s) : s[i] = 0

\* C1: unit-impulse scenario.  With the impulse response [1.0] loaded and an
\* impulse at sample 0 followed by zeros fed to process_sample, the first
\* block_size outputs are 0 and the output at sample block_size is not 0
\* (block_size 4: outputs 0..3 are 0, output 4 is the impulse).
C1_UnitImpulse ==
    (loaded_ir = <<One>> /\ IsImpulse(in_hist)) =>
        \A n \in 1..Len(out_hist) :
            /\ n <= new_block_size => out_hist[n] = 0
            /\ n = new_block_size + 1 => out_hist[n] # 0

RECURSIVE ConvolutionSum(_, _, _, _)
\* Sample m (from 1) of the linear convolution of input with ir: the sum of
\* ir[j] * input[m - j + 1] over the taps j = k..Len(ir) that meet a sample
ConvolutionSum(ir, input, m, k) ==
    IF k > Len(ir) THEN 0
    ELSE (IF m - k + 1 >= 1 THEN FMul(ir[k], input[m - k + 1]) ELSE 0)
         + ConvolutionSum(ir, input, m, k + 1)

\* C2: fixed latency and convolution correctness for a single-partition
\* impulse response.  With an impulse response of at most block_size taps
\* loaded, the outputs of process_sample are the linear convolution of the
\* inputs with the impulse response, delayed by exactly block_size samples:
\* 0 for the first block_size outputs, then the convolution sum.
C2_FixedLatencyConvolution ==
    (Len(loaded_ir) >= 1 /\ Len(loaded_ir) <= new_block_size) =>
        \A n \in 1..Len(out_hist) :
            out_hist[n] = IF n <= new_block_size THEN 0
                          ELSE ConvolutionSum(loaded_ir, in_hist, n - new_block_size, 1)

\* C3: amortisation of block processing.  Between a load or reset and the
\* next, process_block runs its transforms at most once in every window of
\* block_size consecutive process_sample calls: two calls that run them
\* are at least block_size calls apart.
C3_OncePerBlock ==
    \A i \in 1..(Len(block_runs) - 1) :
        block_runs[i + 1] - block_runs[i] >= new_block_size

\* C8: length validation of load_impulse_response.  An empty impulse
\* response is rejected with EmptyImpulseResponse, one of more than 96,000
\* samples with ImpulseResponseTooLong, and one of 1..96,000 samples passes
\* the length checks (the load, whose transforms succeed, returns Ok).
C8_LengthValidation ==
    last_op = "load_impulse_response" =>
        /\ last_len = 0 => last_result = "EmptyImpulseResponse"
        /\ last_len > 96000 => last_result = "ImpulseResponseTooLong"
        /\ (last_len >= 1 /\ last_len <= 96000) => last_result = "Ok"

\* C8 witness: an impulse response of exactly 96,000 samples was loaded
\* and accepted, and all its partitions were stored
C8_Witness ==
    /\ last_op = "load_impulse_response"
    /\ last_len = 96000
    /\ last_result = "Ok"
    /\ Len(convolution_engine.ir_partitions) * new_block_size = 96000

---------------------------------------------------------------------------
\* Properties of the cabinet simulator (checked under Spec)

\* f32::clamp(0.0, 1.0), written out
Clamped(m) == IF m < 0 THEN 0 ELSE IF m > One THEN One ELSE m

\* C4: Direct passthrough.  Whenever the current cabinet is Direct,
\* process_sample(x) returns exactly x, whatever the mix and whatever was
\* loaded, mixed, reset or processed before.
C4_DirectPassthrough ==
    (last_op = "process_sample" /\ current_cabinet = "Direct") =>
        last_output = last_input

\* C4 witness: in Direct mode with the mix fully wet, process_sample(1.0)
\* returned 1.0
C4_Witness ==
    /\ last_op = "process_sample"
    /\ current_cabinet = "Direct"
    /\ mix = One
    /\ last_input = One
    /\ last_output = One

\* C5: with mix = 0.0 and a cabinet other than Direct loaded,
\* process_sample(x) returns exactly the dry input x, in every state of the
\* engine (while it fills and after blocks were processed).
C5_DryAtMixZero ==
    (last_op = "process_sample" /\ current_cabinet # "Direct" /\ mix = 0) =>
        last_output = last_input

\* C5 witness: with mix = 0.0, a call that processed a block got a non-zero
\* wet value from the engine, different from its input, and returned the
\* input
C5_Witness ==
    /\ last_op = "process_sample"
    /\ current_cabinet # "Direct"
    /\ mix = 0
    /\ Len(convolution_engine.input_buffer) = convolution_engine.block_size
    /\ convolution_engine.buffer_position = 1
    /\ last_wet # 0
    /\ last_wet # last_input
    /\ last_output = last_input

\* C6: after load_cabinet(c) returned Ok for a cabinet c other than Direct,
\* from any state, get_current_cabinet() is c and the state of the engine
\* is reset (input buffer empty, overlap all zero, cursor 0); and as long
\* as only zero samples were fed since the engine was last reset that way,
\* process_sample returns zero.
C6_LoadResets ==
    /\ (last_op = "load_cabinet" /\ last_result = "Ok" /\ last_arg # "Direct") =>
           /\ GetCurrentCabinet(current_cabinet) = last_arg
           /\ IsResetState(convolution_engine)
    /\ (last_op = "process_sample" /\ current_cabinet # "Direct" /\ silent) =>
           /\ last_wet = 0
           /\ last_output = 0

\* C6 witness: load_cabinet switched to another cabinet than the one
\* before, in mid-stream (the engine held samples and a non-zero overlap),
\* and returned Ok
C6_Witness ==
    /\ last_op = "load_cabinet"
    /\ last_result = "Ok"
    /\ last_arg \notin {"Direct", prev_cabinet}
    /\ dirty_before
    /\ current_cabinet = last_arg

\* C7: get_latency() of the cabinet simulator is 0 when the current
\* cabinet is Direct and the block size given at construction otherwise,
\* and get_latency() of the processor is the same value.
C7_Latency ==
    /\ CabGetLatency(convolution_engine, current_cabinet) =
           (IF current_cabinet = "Direct" THEN 0 ELSE new_block_size)
    /\ ProcessorGetLatency(convolution_engine, current_cabinet) =
           (IF current_cabinet = "Direct" THEN 0 ELSE new_block_size)

\* C7 witness: a simulator built with block size 4 is in Direct mode and
\* reports latency 0
C7_Witness ==
    /\ new_block_size = 4
    /\ current_cabinet = "Direct"
    /\ last_op = "load_cabinet"
    /\ CabGetLatency(convolution_engine, current_cabinet) = 0

\* C9: the stored mix is in [0,1] in every state; set_mix(m) and
\* update_cabinet(_, m) store 0.0 for m < 0, 1.0 for m > 1 and m
\* otherwise, and set_mix never fails.
C9_MixClamped ==
    /\ mix >= 0
    /\ mix <= One
    /\ last_op \in {"set_mix", "update_cabinet"} => mix = Clamped(last_mix_arg)
    /\ last_op = "set_mix" => last_result = "Ok"

\* C9 witness: set_mix(-0.5) stored 0.0
C9_Witness ==
    /\ last_op = "set_mix"
    /\ last_mix_arg = -(One \div 2)
    /\ mix = 0

---------------------------------------------------------------------------
\* Properties of the error path (checked under SpecFault)

\* C10: when load_cabinet(c) returns an error, directly or inside
\* update_cabinet, get_current_cabinet() is the same cabinet as before the
\* call; update_cabinet swallows the error and still stores the mix.
C10_FailedLoadKeepsCabinet ==
    (last_op \in {"load_cabinet", "update_cabinet"} /\ last_result # "Ok") =>
        /\ GetCurrentCabinet(current_cabinet) = prev_cabinet
        /\ last_op = "update_cabinet" => mix = Clamped(last_mix_arg)

\* C10 witness: update_cabinet asked for another cabinet, the load failed
\* with FftError, and the cabinet of before is still current
C10_Witness ==
    /\ last_op = "update_cabinet"
    /\ last_result = "FftError"
    /\ last_arg # prev_cabinet
    /\ current_cabinet = prev_cabinet

---------------------------------------------------------------------------
\* Further properties of the cabinet simulator (checked under Spec)

\* C11: the catalog is never without a usable cabinet.  Each of the four
\* named cabinets has a catalog impulse response of 1..96,000 samples, and
\* in every reachable state of a constructed simulator load_cabinet(c)
\* would return Ok for each of the five cabinet identities; every
\* load_cabinet that was called returned Ok.
C11_CatalogUsable ==
    /\ \A c \in CabinetTypes \ {"Direct"} :
           /\ c \in DOMAIN cabinet_impulses
           /\ Len(cabinet_impulses[c]) > 0
           /\ Len(cabinet_impulses[c]) <= 96000
    /\ \A c \in CabinetTypes :
           LoadCabinet(convolution_engine, current_cabinet, c, 0).result = "Ok"
    /\ last_op = "load_cabinet" => last_result = "Ok"

\* C11 witness: load_cabinet(Direct) returned Ok on a simulator that was
\* on another cabinet, in mid-stream
C11_Witness ==
    /\ last_op = "load_cabinet"
    /\ last_arg = "Direct"
    /\ prev_cabinet # "Direct"
    /\ dirty_before
    /\ last_result = "Ok"
    /\ current_cabinet = "Direct"

\* C12: update_cabinet(id, mix) reloads the cabinet only when id differs
\* from the current cabinet.  When id is the current cabinet, the engine
\* (partitions, input buffer, overlap buffer, cursor) and the current
\* cabinet are left as they were, no load_cabinet call is made and only the
\* mix is stored; when id differs, load_cabinet(id) is called exactly once
\* and the engine and the current cabinet are what that one call leaves.
C12_ReloadOnlyOnChange ==
    [][ last_op' = "update_cabinet" =>
            IF last_arg' = GetCurrentCabinet(current_cabinet)
            THEN /\ load_calls' = 0
                 /\ convolution_engine' = convolution_engine
                 /\ current_cabinet' = current_cabinet
                 /\ mix' = Clamped(last_mix_arg')
            ELSE /\ load_calls' = 1
                 /\ convolution_engine' =
                        LoadCabinet(convolution_engine, current_cabinet, last_arg', 0).eng
                 /\ current_cabinet' =
                        LoadCabinet(convolution_engine, current_cabinet, last_arg', 0).cur
                 /\ mix' = Clamped(last_mix_arg') ]_vars

\* C12 witness: update_cabinet was called with the current cabinet while
\* the engine was in mid-stream (samples held, overlap not zero); the
\* engine is still in mid-stream, no load was made and the mix changed
C12_Witness ==
    /\ last_op = "update_cabinet"
    /\ last_arg = prev_cabinet
    /\ current_cabinet = prev_cabinet
    /\ current_cabinet # "Direct"
    /\ load_calls = 0
    /\ Dirty(convolution_engine)
    /\ last_mix_arg = One \div 2
    /\ mix = One \div 2

---------------------------------------------------------------------------
\* Properties of per-sample processing (checked under SpecFault, where
\* engines with no partition or some of the partitions of a cabinet occur
\* after a failed load, and where the transforms of process_block may fail)

\* Every index the next process_sample call on engine e uses is in range.
\* While the input buffer fills, the only indexed read is guarded by the
\* code (convolution.rs:128).  Once it is full, process_block writes
\* fft_scratch[i] for every held sample, reads ir_partition[2i], [2i+1]
\* for every bin i of the input spectrum, reads fft_scratch[i] in the
\* first overlap loop, and process_sample returns overlap_buffer[0].
ProcessSampleInBounds(e) ==
    Len(e.input_buffer) >= e.block_size =>
        /\ Len(e.overlap_buffer) >= 1
        /\ e.ir_partitions # <<>> =>
               /\ Len(e.input_buffer) <= e.fft_scratch_len
               /\ \A p \in 1..Len(e.ir_partitions) :
                      Len(e.ir_partitions[p]) >= e.fft_size \div 2 + 1
               /\ Min(e.block_size, Len(e.overlap_buffer)) <= e.fft_scratch_len

\* C13: per-sample processing is infallible.  In every reachable state the
\* next process_sample call stays within its buffers; every process_sample
\* call, of the engine and of the cabinet simulator, returned a sample and
\* no error, also when a transform of process_block failed; an error is
\* only ever the result of a load (load_cabinet, directly or inside
\* update_cabinet, which passes on the error of load_impulse_response).
C13_ProcessingInfallible ==
    /\ ProcessSampleInBounds(convolution_engine)
    /\ last_op = "process_sample" =>
           /\ last_result = "Ok"
           /\ last_output \in Int
           /\ last_wet \in Int
    /\ last_result # "Ok" => last_op \in {"load_cabinet", "update_cabinet"}

\* C13 witness: process_sample ran process_block on an engine of block
\* size 1 that holds no partition (a load failed at its first chunk), in
\* steady state, and returned a sample
C13_Witness ==
    /\ last_op = "process_sample"
    /\ last_result = "Ok"
    /\ current_cabinet # "Direct"
    /\ new_block_size = 1
    /\ convolution_engine.ir_partitions = <<>>
    /\ Len(convolution_engine.input_buffer) = convolution_engine.block_size
    /\ convolution_engine.buffer_position = 1
    /\ last_input = One

---------------------------------------------------------------------------
\* Properties of the processor pipeline (checked under SpecProc)

\* the stages of process_sample in the order of the claim
StageOrder ==
    <<"input_gain", "tube_stage", "tonestack", "clipper", "cabinet_simulator",
      "output_gain">>

\* C14: GuitarFxProcessor::process_sample applies its stages in one fixed
\* order, each exactly once per input sample: multiply by input_gain,
\* tube_stage.process(x, drive), tonestack.process(x), clipper.process(x,
\* drive), cabinet_simulator.process_sample(x), multiply by output_gain;
\* the output of each stage is the input of the next and the output of the
\* last is returned.
C14_StageOrder ==
    last_op = "processor.process_sample" =>
        LET log == proc_call.log
        IN  /\ Len(log) = 6
            /\ \A i \in 1..6 : log[i].stage = StageOrder[i]
            /\ log[1].input = proc_call.input
            /\ \A i \in 1..5 : log[i + 1].input = log[i].output
            /\ proc_call.out = log[6].output
            /\ log[1].output.fn = "f32::mul"
            /\ log[1].output.args = <<proc_call.input, proc_call.input_gain>>
            /\ log[2].output.fn = "TubeStage::process"
            /\ log[2].output.args = <<log[1].output, proc_call.drive>>
            /\ log[3].output.fn = "ToneStack::process"
            /\ log[3].output.args = <<log[2].output>>
            /\ log[4].output.fn = "AsymmetricClipper::process"
            /\ log[4].output.args = <<log[3].output, proc_call.drive>>
            /\ log[5].output.fn = "CabinetSimulator::process_sample"
            /\ log[5].output.args = <<log[4].output>>
            /\ log[6].output.fn = "f32::mul"
            /\ log[6].output.args = <<log[5].output, proc_call.output_gain>>
            /\ processor.tube_stage.calls =
                   Append(log[2].output.state.calls,
                          <<"process", log[2].input, proc_call.drive>>)
            /\ processor.tonestack.calls =
                   Append(log[3].output.state.calls, <<"process", log[3].input>>)
            /\ processor.clipper = log[4].output.state
            /\ processor.cabinet_simulator.calls =
                   Append(log[5].output.state.calls, <<"process_sample", log[5].input>>)

\* C14 witness: the second sample of a stream went through the pipeline,
\* with gains and drive other than 1.0; every stage had a state from
\* the sample before
C14_Witness ==
    /\ last_op = "processor.process_sample"
    /\ Len(processor.tube_stage.calls) = 2
    /\ Len(processor.cabinet_simulator.calls) = 2
    /\ proc_call.input = One
    /\ proc_call.input_gain = 2 * One
    /\ proc_call.drive = 3 * One
    /\ proc_call.output_gain = One \div 2
    /\ Len(proc_call.log) = 6

---------------------------------------------------------------------------
\* Properties of the mix control (checked under SpecMix)

\* C15: the wet path is active.  With the Marshall4x12V30 cabinet loaded
\* and the constant input 0.5, at every point of the stream the value
\* process_sample(0.5) returns under mix = 1.0 differs from the value it
\* returns under mix = 0.0 by more than 0.001 (the epsilon of
\* test_ir_loading.rs).
C15_WetPathActive ==
    current_cabinet = "Marshall4x12V30" =>
        LET wet_output == CabProcessSample(convolution_engine, current_cabinet,
                                           One, Half, "ok").out
            dry_output == CabProcessSample(convolution_engine, current_cabinet,
                                           0, Half, "ok").out
        IN  Abs(dry_output - wet_output) * 1000 > One

\* C15 witness: with Marshall4x12V30 and mix = 1.0, a process_sample(0.5)
\* that ran process_block returned the non-zero value of the engine,
\* which is not 0.5
C15_Witness ==
    /\ last_op = "process_sample"
    /\ current_cabinet = "Marshall4x12V30"
    /\ mix = One
    /\ last_input = Half
    /\ Len(convolution_engine.input_buffer) = convolution_engine.block_size
    /\ convolution_engine.buffer_position = 1
    /\ last_wet # 0
    /\ last_output = last_wet
    /\ Abs(last_output - Half) * 1000 > One

---------------------------------------------------------------------------
\* Further properties of the convolution engine (checked under SpecConv)

\* The inverse-transform result of the block process_block computes on
\* engine e: fft_scratch after the inverse transform
BlockResult(e) ==
    FftInverse(AccumulatePartitions(FftForward(PadTo(e.input_buffer, e.fft_size),
                                               e.fft_size),
                                    e.ir_partitions),
               e.fft_size)

\* C16: overlap-add reconstruction.  When process_sample processes a
\* block, the sample it emits is the sum of the leading sample of that
\* block's inverse-transform result and the carry left by the block
\* before, and the trailing half of the result becomes the carry for the
\* next block.
C16_OverlapAdd ==
    [][ (last_op' = "process_sample" /\ RunsBlock(convolution_engine)) =>
            /\ last_output' = BlockResult(convolution_engine)[1]
                                  + convolution_engine.overlap_buffer[1]
            /\ \A i \in 1..convolution_engine.block_size :
                   convolution_engine'.overlap_buffer[i] =
                       BlockResult(convolution_engine)[i + convolution_engine.block_size]
      ]_vars

RECURSIVE FoldSum(_, _, _)
\* ir[j] + ir[j + bs] + ir[j + 2*bs] + ... over the taps ir has
FoldSum(ir, bs, j) == IF j > Len(ir) THEN 0 ELSE ir[j] + FoldSum(ir, bs, j + bs)

\* The block_size-long impulse response h'[j] = sum over p of
\* h[p * block_size + j]: the element-wise sum of the chunks of ir
FoldedIr(ir, bs) == Fix([j \in 1..bs |-> FoldSum(ir, bs, j)])

RECURSIVE BlockConvolution(_, _, _, _)
\* Sample k (from 1) of the linear convolution of the block x with h: the
\* sum of x[i] * h[k - i + 1] over the samples i..Len(x) that meet a tap
BlockConvolution(x, h, k, i) ==
    IF i > Len(x) THEN 0
    ELSE (IF k - i + 1 >= 1 /\ k - i + 1 <= Len(h) THEN FMul(x[i], h[k - i + 1]) ELSE 0)
         + BlockConvolution(x, h, k, i + 1)

\* A new engine of block size bs after load_impulse_response(ir)
FreshLoaded(bs, ir) == LoadImpulseResponse(ConvNew(bs), ir, 0).eng

RECURSIVE StreamFrom(_, _, _)
\* The values process_sample returns when the samples inputs[k], inputs[k+1],
\* ... are fed to engine e one after the other
StreamFrom(e, inputs, k) ==
    IF k > Len(inputs) THEN <<>>
    ELSE LET r == ConvProcessSample(e, inputs[k], "ok")
         IN  <<r.out>> \o StreamFrom(r.eng, inputs, k + 1)

\* C17: partition handling without input history.  For an impulse
\* response h of more than one partition, every partition is multiplied
\* with the one current input block and the products are accumulated, so
\* the block result is the linear convolution of the current input block
\* with the element-wise sum h' of the partitions; and the stream of
\* outputs is the one an engine loaded with h' produces for the same
\* inputs.
C17_PartitionsFolded ==
    Len(loaded_ir) > new_block_size =>
        /\ out_hist = StreamFrom(FreshLoaded(new_block_size,
                                             FoldedIr(loaded_ir, new_block_size)),
                                 in_hist, 1)
        /\ (last_op = "process_sample" /\ block_runs # <<>>
                /\ block_runs[Len(block_runs)] = Len(in_hist)) =>
               LET n == Len(in_hist)
                   block == SubSeq(in_hist, n - new_block_size, n - 1)
                   result == BlockResult([convolution_engine EXCEPT !.input_buffer = block])
                   folded == FoldedIr(loaded_ir, new_block_size)
               IN  \A k \in 1..(2 * new_block_size) :
                       result[k] = BlockConvolution(block, folded, k, 1)

\* C18: structural invariants of PartitionedConvolution.  In every state
\* reached by new, load_impulse_response, process_sample and reset:
\* block_size is a power of two (new panics otherwise) and the one given
\* to new, fft_size = 2 * block_size, the overlap buffer has block_size
\* entries, the scratch buffer has fft_size entries, the input buffer holds
\* at most block_size samples and the cursor buffer_position is at most
\* block_size.
C18_StructuralInvariants ==
    /\ \E k \in 0..10 : convolution_engine.block_size = 2 ^ k
    /\ convolution_engine.block_size = new_block_size
    /\ convolution_engine.fft_size = 2 * convolution_engine.block_size
    /\ Len(convolution_engine.overlap_buffer) = convolution_engine.block_size
    /\ convolution_engine.fft_scratch_len = convolution_engine.fft_size
    /\ Len(convolution_engine.input_buffer) <= convolution_engine.block_size
    /\ convolution_engine.buffer_position >= 0
    /\ convolution_engine.buffer_position <= convolution_engine.block_size

\* C18 witness: an engine of block size 4 in steady state: its input
\* buffer is full, the last call processed a block that left a non-zero
\* overlap, and the cursor is 1
C18_Witness ==
    /\ last_op = "process_sample"
    /\ new_block_size = 4
    /\ Len(convolution_engine.input_buffer) = 4
    /\ convolution_engine.buffer_position = 1
    /\ ~AllZero(convolution_engine.overlap_buffer)
    /\ Len(block_runs) >= 2

\* C19: after a successful load_impulse_response(ir) the number of stored
\* partitions is ceil(len(ir) / block_size), whatever was stored before
\* (the partitions of an earlier load are replaced); partition p is the
\* transform of the p-th block_size chunk of ir, zero-padded to fft_size;
\* and the runtime buffers are reset (input buffer empty, overlap buffer
\* zero, cursor 0).
C19_LoadPartitions ==
    (last_op = "load_impulse_response" /\ last_result = "Ok") =>
        LET e == convolution_engine
            bs == convolution_engine.block_size
            n == Len(loaded_ir)
            count == Len(convolution_engine.ir_partitions)
        IN  /\ n = last_len
            /\ (count - 1) * bs < n
            /\ n <= count * bs
            /\ \A p \in 1..count :
                   e.ir_partitions[p] =
                       FftForward([i \in 1..(2 * bs) |->
                                      IF i <= bs /\ (p - 1) * bs + i <= n
                                      THEN loaded_ir[(p - 1) * bs + i]
                                      ELSE 0],
                                  e.fft_size)
            /\ e.input_buffer = <<>>
            /\ e.overlap_buffer = [i \in 1..bs |-> 0]
            /\ e.buffer_position = 0

\* C19 witness: an impulse response of 3 taps was loaded into an engine
\* of block size 2 that was in mid-stream with the partitions of an
\* earlier load: 2 partitions are stored, the second from a short chunk
C19_Witness ==
    /\ last_op = "load_impulse_response"
    /\ last_result = "Ok"
    /\ dirty_before
    /\ new_block_size = 2
    /\ last_len = 3
    /\ Len(convolution_engine.ir_partitions) = 2

\* C20: reset() empties the input buffer, zeroes the overlap buffer and
\* sets the cursor to 0, and leaves the partitions and the block size as
\* they were; and whatever was processed before the reset, the outputs
\* for the samples fed after it are those of a new engine of the same
\* block size loaded with the same impulse response and fed the same
\* samples.
C20_ResetEqualsFresh ==
    /\ [][ last_op' = "reset" =>
               /\ convolution_engine'.input_buffer = <<>>
               /\ convolution_engine'.overlap_buffer =
                      [i \in 1..convolution_engine.block_size |-> 0]
               /\ convolution_engine'.buffer_position = 0
               /\ convolution_engine'.ir_partitions = convolution_engine.ir_partitions
               /\ convolution_engine'.block_size = convolution_engine.block_size
               /\ convolution_engine'.fft_size = convolution_engine.fft_size
          ]_vars
    /\ [](stream_start \in {"reset", "reset_dirty"} =>
              out_hist = StreamFrom(FreshLoaded(new_block_size, loaded_ir), in_hist, 1))

\* C20 witness: an engine was reset in mid-stream (it held samples and a
\* non-zero overlap) and then fed three samples or more, for which it
\* returned a non-zero output
C20_Witness ==
    /\ stream_start = "reset_dirty"
    /\ last_op = "process_sample"
    /\ Len(in_hist) >= 3
    /\ \E i \in 1..Len(out_hist) : out_hist[i] # 0
    /\ out_hist = StreamFrom(FreshLoaded(new_block_size, loaded_ir), in_hist, 1)

---------------------------------------------------------------------------
\* C21: Direct mode uses no transform path.  load_cabinet(Direct) returns
\* Ok whatever the state and whichever transform would fail, sets the
\* current cabinet to Direct and resets the runtime buffers of the engine
\* (input buffer empty, overlap all zero, cursor 0; the partitions are
\* kept); and while the current cabinet is Direct, process_sample changes
\* neither the engine (input buffer, overlap buffer, cursor, partitions)
\* nor the mix, and returns without a transform having run.
C21_DirectNoTransform ==
    [][ /\ (last_op' = "load_cabinet" /\ last_arg' = "Direct") =>
               /\ last_result' = "Ok"
               /\ current_cabinet' = "Direct"
               /\ IsResetState(convolution_engine')
               /\ convolution_engine' = ConvReset(convolution_engine)
        /\ (last_op' = "process_sample" /\ current_cabinet = "Direct") =>
               /\ convolution_engine'.input_buffer = convolution_engine.input_buffer
               /\ convolution_engine'.overlap_buffer = convolution_engine.overlap_buffer
               /\ convolution_engine'.buffer_position = convolution_engine.buffer_position
               /\ convolution_engine'.ir_partitions = convolution_engine.ir_partitions
               /\ mix' = mix
               /\ current_cabinet' = "Direct"
      ]_vars

\* C21 witness: a non-zero sample was processed in Direct mode, which was
\* entered from a convolving cabinet in mid-stream by load_cabinet(Direct);
\* the engine still holds the partitions of that cabinet and the mix is
\* strictly between 0 and 1
C21_Witness ==
    /\ last_op = "process_sample"
    /\ current_cabinet = "Direct"
    /\ last_input # 0
    /\ last_output = last_input
    /\ convolution_engine.ir_partitions # <<>>
    /\ IsResetState(convolution_engine)
    /\ mix > 0
    /\ mix < One

---------------------------------------------------------------------------
\* Properties of the filters (checked under SpecFilter)

\* C22: BiquadFilter::process(x) computes, in this order, output = b0*x +
\* z1, then z1' = b1*x - a1*output + z2 with the z2 of before the call,
\* then z2' = b2*x - a2*output; it returns output and changes no
\* coefficient; and a filter that was only processed since new() returns
\* every sample unchanged.
C22_BiquadRecurrence ==
    [][ last_op' = "filter.process" =>
            /\ last_output' = CoefMul(filter.b0, last_input') + filter.z1
            /\ filter'.z1 = CoefMul(filter.b1, last_input')
                            - CoefMul(filter.a1, last_output') + filter.z2
            /\ filter'.z2 = CoefMul(filter.b2, last_input')
                            - CoefMul(filter.a2, last_output')
            /\ Coefficients(filter') = Coefficients(filter)
            /\ (filter_fresh => /\ last_output' = last_input'
                                /\ filter' = BiquadFilterNew)
      ]_vars

\* C22 witness: the third sample was processed by a filter with feedback
\* (a1 and a2 not zero) whose two registers are not zero and differ
C22_Witness ==
    /\ last_op = "filter.process"
    /\ filter_samples = 3
    /\ ~filter_fresh
    /\ filter.a1 # 0
    /\ filter.a2 # 0
    /\ filter.b1 # 0
    /\ filter.z1 # 0
    /\ filter.z2 # 0
    /\ filter.z1 # filter.z2
    /\ last_output # last_input

\* the two registers of a filter
Registers(f) == <<f.z1, f.z2>>

\* the coefficients a configuration of the filter-level driver computes,
\* which depend on its arguments only
ConfiguredCoefficients(op) ==
    CASE op = "filter.set_coefficients" -> CoefChoices
      [] op = "filter.peaking_eq" ->
             {Coefficients(PeakingEq(BiquadFilterNew, c[1], c[2], c[3], DefaultSampleRate)) :
                  c \in PeakChoices}
      [] op = "filter.low_pass" ->
             {Coefficients(LowPass(BiquadFilterNew, 8000, (707 * CoefOne) \div 1000,
                                   DefaultSampleRate))}
      [] op = "filter.high_pass" ->
             {Coefficients(HighPass(BiquadFilterNew, 20, (707 * CoefOne) \div 1000,
                                    DefaultSampleRate))}

\* C23: registers and coefficients are changed by disjoint operations.
\* reset() zeroes z1 and z2 and leaves the five coefficients unchanged;
\* peaking_eq, low_pass, high_pass and set_coefficients overwrite the
\* coefficients with values that depend on their arguments only and leave
\* z1 and z2 unchanged; update_controls does so on the three bands of the
\* tone stack; so the registers of a filter change only in process, in
\* reset and when a new filter is constructed.
C23_RegistersAndCoefficients ==
    [][ /\ last_op' = "filter.reset" =>
               /\ Registers(filter') = <<0, 0>>
               /\ Coefficients(filter') = Coefficients(filter)
        /\ last_op' \in {"filter.set_coefficients", "filter.peaking_eq",
                         "filter.low_pass", "filter.high_pass"} =>
               /\ Registers(filter') = Registers(filter)
               /\ Coefficients(filter') \in ConfiguredCoefficients(last_op')
        /\ last_op' = "tone_stack.update_controls" =>
               /\ Registers(tone_stack'.bass_filter) = Registers(tone_stack.bass_filter)
               /\ Registers(tone_stack'.mid_filter) = Registers(tone_stack.mid_filter)
               /\ Registers(tone_stack'.treble_filter) = Registers(tone_stack.treble_filter)
               /\ \E t \in ToneSettings :
                     LET n == StackUpdateControls(DefaultStack, t[1], t[2], t[3])
                     IN  /\ Coefficients(tone_stack'.bass_filter) = Coefficients(n.bass_filter)
                         /\ Coefficients(tone_stack'.mid_filter) = Coefficients(n.mid_filter)
                         /\ Coefficients(tone_stack'.treble_filter) = Coefficients(n.treble_filter)
        /\ Registers(filter') # Registers(filter) =>
               last_op' \in {"filter.process", "filter.reset", "filter.new"}
        /\ tone_stack' # tone_stack =>
               last_op' \in {"tone_stack.process", "tone_stack.update_controls"}
      ]_vars

\* C23 witness: peaking_eq has configured a filter whose two registers are
\* not zero, and they are still not zero
C23_Witness ==
    /\ last_op = "filter.peaking_eq"
    /\ filter_samples >= 2
    /\ filter.z1 # 0
    /\ filter.z2 # 0
    /\ Coefficients(filter) \in ConfiguredCoefficients("filter.peaking_eq")

---------------------------------------------------------------------------
\* Properties of the processor after initialize (checked under SpecProc)

\* The coefficients of the sample-rate-dependent filters of the pipeline,
\* computed for sample_rate with the settings that tone (bass, mid and
\* treble in dB) gives the tone stack
FiltersFor(sample_rate, tone) ==
    LET stack == StackUpdateControls(StackNew(sample_rate), tone[1], tone[2], tone[3])
    IN  [ bass_filter   |-> Coefficients(stack.bass_filter),
          mid_filter    |-> Coefficients(stack.mid_filter),
          treble_filter |-> Coefficients(stack.treble_filter),
          hf_rolloff    |-> Coefficients(LowPass(BiquadFilterNew, 8000,
                                                 (707 * CoefOne) \div 1000, sample_rate)),
          dc_blocker    |-> Coefficients(HighPass(BiquadFilterNew, 20,
                                                  (707 * CoefOne) \div 1000, sample_rate)) ]

\* The coefficients the filters of processor p have
FiltersOf(p) ==
    [ bass_filter   |-> p.tonestack.bass_filter,
      mid_filter    |-> p.tonestack.mid_filter,
      treble_filter |-> p.tonestack.treble_filter,
      hf_rolloff    |-> p.tube_stage.hf_rolloff,
      dc_blocker    |-> p.tube_stage.dc_blocker ]

\* C24: after initialize(sample_rate), every sample-rate-dependent filter
\* of the pipeline has the coefficients computed for that sample rate: the
\* three bands of the tone stack (at the neutral settings ToneStack::new
\* gives them), and the high-frequency rolloff and the DC blocker of the
\* tube stage.
C24_InitializeSampleRate ==
    last_op = "processor.initialize" =>
        FiltersOf(processor) = FiltersFor(processor.sample_rate, <<0, 0, 0>>)

---------------------------------------------------------------------------
\* Properties of the clipper (checked under SpecClip)

\* the smallest and the largest entry of the lookup table
TableMin == CHOOSE v \in {Clipper.lookup_table[i] : i \in 1..TABLE_SIZE} :
                \A i \in 1..TABLE_SIZE : v <= Clipper.lookup_table[i]
TableMax == CHOOSE v \in {Clipper.lookup_table[i] : i \in 1..TABLE_SIZE} :
                \A i \in 1..TABLE_SIZE : v >= Clipper.lookup_table[i]

\* C27: AsymmetricClipper::process is bounded and index-safe for every
\* input and drive.  The driven input is input * drive clamped to [-4, 4];
\* every table index read lies in 0..table_size - 1, so that no read is
\* past the end; a driven input whose index is table_size - 1 or more
\* returns exactly the last entry; otherwise the value returned is the
\* interpolation of entries index and index + 1 with a fraction in [0, 1),
\* so it lies between those two entries; and every value returned lies
\* between the smallest and the largest entry of the table.
C27_ClipperBounded ==
    last_op = "clipper.process" =>
        LET c == clipper_call
            table == Clipper.lookup_table
            y0 == table[c.table_index + 1]
            y1 == table[c.table_index + 2]
        IN  /\ c.driven_input = Clamp((c.input * c.drive) \div One, -4 * CoefOne, 4 * CoefOne)
            /\ c.driven_input >= -4 * CoefOne
            /\ c.driven_input <= 4 * CoefOne
            /\ ~c.panicked
            /\ c.reads # <<>>
            /\ \A k \in 1..Len(c.reads) : c.reads[k] \in 0..(TABLE_SIZE - 1)
            /\ c.table_index >= 0
            /\ c.frac >= 0
            /\ c.frac < CoefOne
            /\ c.table_index >= TABLE_SIZE - 1 =>
                   /\ c.reads = <<TABLE_SIZE - 1>>
                   /\ c.out = table[TABLE_SIZE]
            /\ c.table_index < TABLE_SIZE - 1 =>
                   /\ c.reads = <<c.table_index, c.table_index + 1>>
                   /\ c.out = y0 + QMul(c.frac, y1 - y0)
                   /\ c.out >= Min(y0, y1)
                   /\ c.out <= IF y0 > y1 THEN y0 ELSE y1
            /\ c.out >= TableMin
            /\ c.out <= TableMax

\* C27 witness: a driven input inside the last cell of the table (index
\* table_size - 1, fraction not zero), where entry index + 1 does not
\* exist, returned the last entry
C27_Witness ==
    /\ last_op = "clipper.process"
    /\ clipper_call.table_index = TABLE_SIZE - 1
    /\ clipper_call.frac > 0
    /\ clipper_call.driven_input < 4 * CoefOne
    /\ clipper_call.reads = <<TABLE_SIZE - 1>>
    /\ clipper_call.out = Clipper.lookup_table[TABLE_SIZE]

---------------------------------------------------------------------------
\* Properties of the plugin (checked under SpecPlugin)

\* C25: latency reporting follows cabinet changes.  After a process
\* callback, whatever cabinet change it made, the latency most recently
\* reported to the host equals processor.get_latency().
C25_LatencyFollowsCabinet ==
    last_op = "plugin.process" =>
        host_latency = PipelineGetLatency(plugin_processor)

\* the samples a buffer carries on the first channel
FirstChannel(buffer) == [k \in 1..Len(buffer) |-> buffer[k][1]]

C30_IndexRoundTrip ==
    /\ \A c \in CabinetTypes : FromIndex(ToIndex(c)) = c
    /\ \A c, d \in CabinetTypes : ToIndex(c) = ToIndex(d) => c = d
    /\ {ToIndex(c) : c \in CabinetTypes} = 0..4
    /\ \A index \in 5..MaxCabinetIndex : FromIndex(index) = "Marshall4x12V30"
    /\ last_op = "plugin.process" =>
          LET cur == plugin_processor.cabinet_simulator.cur
          IN  /\ param_cabinet_index <= 4 => ToIndex(cur) = param_cabinet_index
              /\ param_cabinet_index > 4 => cur = "Marshall4x12V30"

\* C30 witness: a process callback read an index above 4 from the cabinet
\* parameter and the processor holds Marshall4x12V30
C30_Witness ==
    /\ last_op = "plugin.process"
    /\ param_cabinet_index > 4
    /\ plugin_frames = MaxFrames
    /\ plugin_processor.cabinet_simulator.cur = "Marshall4x12V30"

---------------------------------------------------------------------------
\* Properties of rejected loads (checked under SpecConv)

\* the results with which load_impulse_response rejects an impulse response
\* at its length checks
Rejections == {"EmptyImpulseResponse", "ImpulseResponseTooLong"}

\* C28: a rejected load leaves the engine untouched.  When
\* load_impulse_response returns EmptyImpulseResponse or
\* ImpulseResponseTooLong, the partitions, the input buffer, the overlap
\* buffer and the cursor are as before the call, and the next
\* process_sample returns the sample, and leaves the engine in the state, it
\* would have had the call not been made.
C28_RejectedLoadUntouched ==
    [][(last_op' = "load_impulse_response" /\ last_result' \in Rejections) =>
          /\ convolution_engine'.ir_partitions = convolution_engine.ir_partitions
          /\ convolution_engine'.input_buffer = convolution_engine.input_buffer
          /\ convolution_engine'.overlap_buffer = convolution_engine.overlap_buffer
          /\ convolution_engine'.buffer_position = convolution_engine.buffer_position
          /\ convolution_engine' = convolution_engine
          /\ Len(convolution_engine.ir_partitions) <= MaxPartitions =>
                \A x \in Samples :
                    ConvProcessSample(convolution_engine', x, "ok")
                        = ConvProcessSample(convolution_engine, x, "ok")]_vars

\* C28 witness: an impulse response of more than 96,000 samples was
\* rejected by an engine that holds partitions, samples of the current
\* block and an overlap that is not zero
C28_Witness ==
    /\ last_op = "load_impulse_response"
    /\ last_result = "ImpulseResponseTooLong"
    /\ last_len = MaxIrLen + 1
    /\ convolution_engine.ir_partitions # <<>>
    /\ convolution_engine.input_buffer # <<>>
    /\ ~AllZero(convolution_engine.overlap_buffer)
    /\ in_hist # <<>>

---------------------------------------------------------------------------
\* Properties of the loader (checked under SpecLoader)

\* C29: ingestion always yields usable impulse responses.  Whatever the
\* files are, load_cabinet_irs returns one impulse response for each of the
\* four named cabinets, the fallback of 512 samples where the file did not
\* load, and every one it returns has more than 0 and at most 96,000
\* samples, so that load_impulse_response accepts it.
C29_UsableIrs ==
    last_op = "loader.load_cabinet_irs" =>
        /\ ~loader_irs.panicked
        /\ Len(loader_irs.irs) = Len(IrFileOrder)
        /\ \A k \in 1..Len(loader_irs.irs) :
              LET ir == loader_irs.irs[k]
              IN  /\ ir.cabinet_type = IrFileOrder[k]
                  /\ ir.source = "fallback" => ir.len = FallbackLen
                  /\ ir.len > 0
                  /\ ir.len <= MaxIrLen

=========================================================================
